---- MODULE Spec2Model ----
(***************************************************************************)
(* Model of the generation service of prompt-generate-3dmodel:             *)
(*   - cleanAndParseJSON       (JSON salvage ladder, pure text function)   *)
(*   - generateSingleView      (image request with retry and backoff)      *)
(*   - generateReferenceImages (front first, then back/left/right)         *)
(*   - generateSceneWorkflow   (four-stage async generator)                *)
(* Texts are sequences of one-character strings.                           *)
(***************************************************************************)
EXTENDS Integers, Sequences, FiniteSets, TLC

----------------------------------------------------------------------------
(* Characters and elementary string operations of the JavaScript runtime.  *)

\* Whitespace of the modelled alphabet: matched alike by the regex class \s,
\* by String.prototype.trim and by the JSON grammar.
IsSpace(c) == c \in {" ", "\n"}

IsDigit(c) == c \in {"0", "1", "2", "3", "4", "5", "6", "7", "8", "9"}

DigitVal(c) ==
  CASE c = "0" -> 0 [] c = "1" -> 1 [] c = "2" -> 2 [] c = "3" -> 3
    [] c = "4" -> 4 [] c = "5" -> 5 [] c = "6" -> 6 [] c = "7" -> 7
    [] c = "8" -> 8 [] c = "9" -> 9

\* First index >= i of s that holds no whitespace (Len(s)+1 when none).
RECURSIVE SkipWS(_, _)
SkipWS(s, i) == IF i <= Len(s) /\ IsSpace(s[i]) THEN SkipWS(s, i + 1) ELSE i

\* Does p occur in s at index i?
StartsWithAt(s, i, p) ==
  /\ i + Len(p) - 1 <= Len(s)
  /\ \A k \in 1..Len(p) : s[i + k - 1] = p[k]

\* s.substring(i-1): the suffix of s that starts at (1-based) index i.
Suffix(s, i) == SubSeq(s, i, Len(s))

\* The least index in lo..hi that satisfies P, 0 when there is none.
FirstIndex(lo, hi, P(_)) ==
  IF \E j \in lo..hi : P(j)
  THEN CHOOSE j \in lo..hi : P(j) /\ \A k \in lo..(j - 1) : ~P(k)
  ELSE 0

\* s.indexOf(c), 1-based; 0 stands for JavaScript's -1.
IndexOf(s, c) ==
  LET Is(j) == s[j] = c IN FirstIndex(1, Len(s), Is)

\* s.lastIndexOf(c), 1-based; 0 stands for JavaScript's -1.
LastIndexOf(s, c) ==
  IF \E j \in 1..Len(s) : s[j] = c
  THEN CHOOSE j \in 1..Len(s) : s[j] = c /\ \A k \in (j + 1)..Len(s) : s[k] # c
  ELSE 0

\* (s.match(/c/g) || []).length
CountChar(s, c) == Cardinality({j \in 1..Len(s) : s[j] = c})

\* s.trim()
RECURSIVE TrimRight(_)
TrimRight(s) ==
  IF Len(s) > 0 /\ IsSpace(s[Len(s)]) THEN TrimRight(SubSeq(s, 1, Len(s) - 1))
  ELSE s

Trim(s) == TrimRight(Suffix(s, SkipWS(s, 1)))

\* n copies of character c (none when n <= 0)
Repeat(c, n) == [j \in 1..n |-> c]

----------------------------------------------------------------------------
(* JSON values and JSON.parse.                                             *)
(* A value is a record with a single field that names its kind, so that    *)
(* values of different kinds are unequal:                                  *)
(*   [null |-> TRUE], [bool |-> b], [num |-> <<m, k>>] (m * 10^-k, k       *)
(*   minimal), [str |-> chars], [arr |-> <<v1, ...>>], [obj |-> f] with f  *)
(*   a function from keys (character sequences) to values.                 *)

JNull == [null |-> TRUE]
JBool(b) == [bool |-> b]
JStr(cs) == [str |-> cs]
JArr(vs) == [arr |-> vs]
JObj(f) == [obj |-> f]

\* m * 10^-k with trailing fraction zeros dropped, so that 0.70 = 0.7.
RECURSIVE JNum(_, _)
JNum(m, k) ==
  IF k > 0 /\ m % 10 = 0 THEN JNum(m \div 10, k - 1) ELSE [num |-> <<m, k>>]

IsObj(v) == DOMAIN v = {"obj"}
IsArr(v) == DOMAIN v = {"arr"}
IsStr(v) == DOMAIN v = {"str"}
IsNum(v) == DOMAIN v = {"num"}
IsNullV(v) == DOMAIN v = {"null"}

EmptyMembers == [k \in {} |-> JNull]

\* obj[key] = val: a repeated key keeps the last value, as JSON.parse does.
PutMember(f, key, val) ==
  [k \in DOMAIN f \cup {key} |-> IF k = key THEN val ELSE f[k]]

PFail == [ok |-> FALSE, val |-> JNull, next |-> 0]
POk(v, n) == [ok |-> TRUE, val |-> v, next |-> n]

\* A string token starting at the quote s[i]: characters up to the next
\* quote; a raw newline (control character) is not allowed inside.  The
\* alphabet has no backslash, so there are no escapes.
ParseString(s, i) ==
  LET IsQuote(j) == s[j] = "\""
      close == FirstIndex(i + 1, Len(s), IsQuote)
  IN  IF close = 0 THEN PFail
      ELSE IF \E j \in (i + 1)..(close - 1) : s[j] = "\n" THEN PFail
      ELSE POk(JStr(SubSeq(s, i + 1, close - 1)), close + 1)

\* Maximal run of digits from index i: <<value, count, next index>>.
RECURSIVE DigitsFrom(_, _, _, _)
DigitsFrom(s, i, val, n) ==
  IF i <= Len(s) /\ IsDigit(s[i])
  THEN DigitsFrom(s, i + 1, val * 10 + DigitVal(s[i]), n + 1)
  ELSE <<val, n, i>>

\* number = -? (0 | [1-9][0-9]*) (. [0-9]+)?   (the alphabet's texts carry
\* no exponent part)
ParseNumber(s, i) ==
  LET neg == s[i] = "-"
      i0 == IF neg THEN i + 1 ELSE i
      ip == DigitsFrom(s, i0, 0, 0)
      leadingZero == ip[2] > 1 /\ s[i0] = "0"
      hasFrac == ip[3] <= Len(s) /\ s[ip[3]] = "."
      fp == DigitsFrom(s, ip[3] + 1, ip[1], 0)
      sign == IF neg THEN -1 ELSE 1
  IN  IF ip[2] = 0 \/ leadingZero THEN PFail
      ELSE IF ~hasFrac THEN POk(JNum(sign * ip[1], 0), ip[3])
      ELSE IF fp[2] = 0 THEN PFail
      ELSE POk(JNum(sign * fp[1], fp[2]), fp[3])

LitTrue == <<"t", "r", "u", "e">>
LitFalse == <<"f", "a", "l", "s", "e">>
LitNull == <<"n", "u", "l", "l">>

RECURSIVE ParseValue(_, _)
RECURSIVE ParseMembers(_, _, _)
RECURSIVE ParseElements(_, _, _)

\* members after "{" or ",": string ws ":" ws value ws ("," | "}")
ParseMembers(s, i, acc) ==
  IF i > Len(s) \/ s[i] # "\"" THEN PFail
  ELSE
    LET key == ParseString(s, i)
        c == SkipWS(s, key.next)
        val == ParseValue(s, SkipWS(s, c + 1))
        e == SkipWS(s, val.next)
        acc2 == PutMember(acc, key.val.str, val.val)
    IN  IF ~key.ok THEN PFail
        ELSE IF c > Len(s) \/ s[c] # ":" THEN PFail
        ELSE IF ~val.ok THEN PFail
        ELSE IF e > Len(s) THEN PFail
        ELSE IF s[e] = "}" THEN POk(JObj(acc2), e + 1)
        ELSE IF s[e] = "," THEN ParseMembers(s, SkipWS(s, e + 1), acc2)
        ELSE PFail

\* elements after "[" or ",": value ws ("," | "]")
ParseElements(s, i, acc) ==
  LET val == ParseValue(s, i)
      e == SkipWS(s, val.next)
      acc2 == Append(acc, val.val)
  IN  IF ~val.ok THEN PFail
      ELSE IF e > Len(s) THEN PFail
      ELSE IF s[e] = "]" THEN POk(JArr(acc2), e + 1)
      ELSE IF s[e] = "," THEN ParseElements(s, SkipWS(s, e + 1), acc2)
      ELSE PFail

\* one JSON value whose first character is s[i]
ParseValue(s, i) ==
  IF i > Len(s) THEN PFail
  ELSE IF s[i] = "{" THEN
    LET j == SkipWS(s, i + 1)
    IN  IF j <= Len(s) /\ s[j] = "}" THEN POk(JObj(EmptyMembers), j + 1)
        ELSE ParseMembers(s, j, EmptyMembers)
  ELSE IF s[i] = "[" THEN
    LET j == SkipWS(s, i + 1)
    IN  IF j <= Len(s) /\ s[j] = "]" THEN POk(JArr(<<>>), j + 1)
        ELSE ParseElements(s, j, <<>>)
  ELSE IF s[i] = "\"" THEN ParseString(s, i)
  ELSE IF s[i] = "-" \/ IsDigit(s[i]) THEN ParseNumber(s, i)
  ELSE IF StartsWithAt(s, i, LitTrue) THEN POk(JBool(TRUE), i + 4)
  ELSE IF StartsWithAt(s, i, LitFalse) THEN POk(JBool(FALSE), i + 5)
  ELSE IF StartsWithAt(s, i, LitNull) THEN POk(JNull, i + 4)
  ELSE PFail

\* JSON.parse(s): [ok |-> TRUE, val |-> v], or ok = FALSE for a SyntaxError.
ParseJSON(s) ==
  LET r == ParseValue(s, SkipWS(s, 1))
  IN  IF r.ok /\ SkipWS(s, r.next) > Len(s)
      THEN [ok |-> TRUE, val |-> r.val]
      ELSE [ok |-> FALSE, val |-> JNull]

----------------------------------------------------------------------------
(* cleanAndParseJSON                                                       *)

\* The grave accent cannot be written in a string literal; this atom stands
\* for that one character.
Backtick == "BACKTICK"

Fence == <<Backtick, Backtick, Backtick>>
FenceJson == Fence \o <<"j", "s", "o", "n">>

\* text.replace(/(fence)json\s*|\s*(fence)/g, "") scanned from index i,
\* where (fence) is three grave accents
\* The scan copies the text up to the leftmost match at or after i, drops
\* the match and goes on behind it; at one index the first alternative is
\* tried first.
RECURSIVE StripFencesFrom(_, _)
StripFencesFrom(s, i) ==
  LET Matches(j) ==
        \/ StartsWithAt(s, j, FenceJson)
        \/ StartsWithAt(s, SkipWS(s, j), Fence)
      m == FirstIndex(i, Len(s), Matches)
      behind == IF StartsWithAt(s, m, FenceJson)
                THEN SkipWS(s, m + Len(FenceJson))
                ELSE SkipWS(s, m) + Len(Fence)
  IN  IF m = 0 THEN SubSeq(s, i, Len(s))
      ELSE SubSeq(s, i, m - 1) \o StripFencesFrom(s, behind)

\* let cleanText = ...replace(...).trim(); then cut before the first "{"
CleanText(text) ==
  LET stripped == Trim(StripFencesFrom(text, 1))
      firstBrace == IndexOf(stripped, "{")
  IN  IF firstBrace # 0 THEN Suffix(stripped, firstBrace) ELSE stripped

\* .replace(/}\s*{/g, '}, {')
RECURSIVE FixMissingComma(_, _)
FixMissingComma(s, i) ==
  LET Matches(j) ==
        s[j] = "}" /\ SkipWS(s, j + 1) <= Len(s) /\ s[SkipWS(s, j + 1)] = "{"
      m == FirstIndex(i, Len(s), Matches)
  IN  IF m = 0 THEN SubSeq(s, i, Len(s))
      ELSE SubSeq(s, i, m - 1) \o <<"}", ",", " ", "{">>
             \o FixMissingComma(s, SkipWS(s, m + 1) + 1)

\* .replace(/,\s*}/g, '}') and .replace(/,\s*]/g, ']'), closer = "}" or "]"
RECURSIVE DropTrailingComma(_, _, _)
DropTrailingComma(s, i, closer) ==
  LET Matches(j) ==
        s[j] = "," /\ SkipWS(s, j + 1) <= Len(s) /\ s[SkipWS(s, j + 1)] = closer
      m == FirstIndex(i, Len(s), Matches)
  IN  IF m = 0 THEN SubSeq(s, i, Len(s))
      ELSE SubSeq(s, i, m - 1) \o <<closer>>
             \o DropTrailingComma(s, SkipWS(s, m + 1) + 1, closer)

\* Attempt 2: the three replacements, in the order of the source
RepairSyntax(cleanText) ==
  DropTrailingComma(
    DropTrailingComma(FixMissingComma(cleanText, 1), 1, "}"), 1, "]")

\* Attempt 3: the text cut after its last "}" plus the balancing suffix
\* (closing brackets first, then closing braces)
\* Variant: the closing braces are appended before the closing brackets.
RepairTruncation_BracesFirst(repairedText) ==
  LET lastClosingBrace == LastIndexOf(repairedText, "}")
      truncatedText == SubSeq(repairedText, 1, lastClosingBrace)
      openBraces == CountChar(truncatedText, "{")
      closeBraces == CountChar(truncatedText, "}")
      openBrackets == CountChar(truncatedText, "[")
      closeBrackets == CountChar(truncatedText, "]")
  IN  truncatedText \o Repeat("}", openBraces - closeBraces)
                    \o Repeat("]", openBrackets - closeBrackets)

RepairTruncation(repairedText) ==
  LET lastClosingBrace == LastIndexOf(repairedText, "}")
      truncatedText == SubSeq(repairedText, 1, lastClosingBrace)
      openBraces == CountChar(truncatedText, "{")
      closeBraces == CountChar(truncatedText, "}")
      openBrackets == CountChar(truncatedText, "[")
      closeBrackets == CountChar(truncatedText, "]")
      suffix == Repeat("]", openBrackets - closeBrackets)
                  \o Repeat("}", openBraces - closeBraces)
  IN  truncatedText \o suffix

\* Variant: the syntax repair is applied before the first parse.
cleanAndParseJSON_RepairFirst(text) ==
  LET cleanText == CleanText(text)
      repairedText == RepairSyntax(cleanText)
      repaired == ParseJSON(repairedText)
      closed == ParseJSON(RepairTruncation(repairedText))
  IN  IF repaired.ok
        THEN [ok |-> TRUE, val |-> repaired.val, via |-> "syntax"]
      ELSE IF LastIndexOf(repairedText, "}") # 0 /\ closed.ok
        THEN [ok |-> TRUE, val |-> closed.val, via |-> "truncation"]
      ELSE [ok |-> FALSE, val |-> JNull, via |-> "none"]

\* The result of cleanAndParseJSON(text): ok = FALSE when it throws; via
\* records the attempt that produced the value.
cleanAndParseJSON(text) ==
  LET cleanText == CleanText(text)
      direct == ParseJSON(cleanText)
      repairedText == RepairSyntax(cleanText)
      repaired == ParseJSON(repairedText)
      closed == ParseJSON(RepairTruncation(repairedText))
  IN  IF direct.ok THEN [ok |-> TRUE, val |-> direct.val, via |-> "direct"]
      ELSE IF repaired.ok
        THEN [ok |-> TRUE, val |-> repaired.val, via |-> "syntax"]
      ELSE IF LastIndexOf(repairedText, "}") # 0 /\ closed.ok
        THEN [ok |-> TRUE, val |-> closed.val, via |-> "truncation"]
      ELSE [ok |-> FALSE, val |-> JNull, via |-> "none"]

\* new Error("Failed to parse geometric data. ..."): an error has a message
\* and the values attached to it or interpolated into it (data).
ParseFailureMessage ==
  "Failed to parse geometric data. The generation may have been interrupted or malformed."

ParseError == [message |-> ParseFailureMessage, data |-> <<>>]

NoThrow == [message |-> "", data |-> <<>>]

\* The error thrown by a call whose result is r.
ThrownOf(r) == IF r.ok THEN NoThrow ELSE ParseError

\* Variant: the cleaned text is logged in place of the raw text.
ConsoleOf_CleanedText(text, r) ==
  IF r.via = "none"
  THEN <<[level |-> "error", label |-> "Unrecoverable JSON Error. Raw Text:",
          arg |-> CleanText(text)]>>
  ELSE <<>>

\* The console output of the call cleanAndParseJSON(text) whose result is r:
\* the warning of an attempted truncation repair with its suffix, the error
\* of a failed one, and the raw text of an unrecoverable input.
ConsoleOf(text, r) ==
  LET repairedText == RepairSyntax(CleanText(text))
      lastClosingBrace == LastIndexOf(repairedText, "}")
      attempted == r.via \in {"truncation", "none"} /\ lastClosingBrace # 0
      suffix == Suffix(RepairTruncation(repairedText), lastClosingBrace + 1)
  IN  (IF attempted
       THEN <<[level |-> "warn",
               label |-> "JSON was truncated. Attempting auto-repair with suffix:",
               arg |-> suffix]>>
       ELSE <<>>)
      \o (IF attempted /\ r.via = "none"
          THEN <<[level |-> "error", label |-> "Auto-repair failed:",
                  arg |-> <<>>]>>
          ELSE <<>>)
      \o (IF r.via = "none"
          THEN <<[level |-> "error",
                  label |-> "Unrecoverable JSON Error. Raw Text:",
                  arg |-> text]>>
          ELSE <<>>)

----------------------------------------------------------------------------
(* Texts the structured-generation endpoint can answer with.  A document   *)
(* is a tree with ordered members; Render writes it as text and ValueOf is *)
(* the structure it denotes.  A response is a rendered document, possibly  *)
(* damaged: cut short by the token limit, fenced, or preceded by prose.    *)

TNum(txt, m, k) == [tnum |-> <<txt, m, k>>]
TStr(cs) == [tstr |-> cs]
TLit(cs) == [tlit |-> cs]
TArr(ts) == [tarr |-> ts]
TObj(ms) == [tobj |-> ms]

Quoted(cs) == <<"\"">> \o cs \o <<"\"">>

RECURSIVE Render(_, _)
RECURSIVE RenderElements(_, _, _)
RECURSIVE RenderMembers(_, _, _)

\* sp is the whitespace written after each "," and ":".
Render(t, sp) ==
  IF DOMAIN t = {"tnum"} THEN t.tnum[1]
  ELSE IF DOMAIN t = {"tstr"} THEN Quoted(t.tstr)
  ELSE IF DOMAIN t = {"tlit"} THEN t.tlit
  ELSE IF DOMAIN t = {"tarr"} THEN <<"[">> \o RenderElements(t.tarr, 1, sp) \o <<"]">>
  ELSE <<"{">> \o RenderMembers(t.tobj, 1, sp) \o <<"}">>

RenderElements(ts, i, sp) ==
  IF i > Len(ts) THEN <<>>
  ELSE Render(ts[i], sp)
         \o (IF i < Len(ts) THEN <<",">> \o sp ELSE <<>>)
         \o RenderElements(ts, i + 1, sp)

RenderMembers(ms, i, sp) ==
  IF i > Len(ms) THEN <<>>
  ELSE Quoted(ms[i][1]) \o <<":">> \o sp \o Render(ms[i][2], sp)
         \o (IF i < Len(ms) THEN <<",">> \o sp ELSE <<>>)
         \o RenderMembers(ms, i + 1, sp)

RECURSIVE ValueOf(_)
RECURSIVE MembersOf(_, _, _)

ValueOf(t) ==
  IF DOMAIN t = {"tnum"} THEN JNum(t.tnum[2], t.tnum[3])
  ELSE IF DOMAIN t = {"tstr"} THEN JStr(t.tstr)
  ELSE IF DOMAIN t = {"tlit"} THEN
    (IF t.tlit = LitNull THEN JNull ELSE JBool(t.tlit = LitTrue))
  ELSE IF DOMAIN t = {"tarr"} THEN JArr([i \in 1..Len(t.tarr) |-> ValueOf(t.tarr[i])])
  ELSE JObj(MembersOf(t.tobj, 1, EmptyMembers))

MembersOf(ms, i, acc) ==
  IF i > Len(ms) THEN acc
  ELSE MembersOf(ms, i + 1, PutMember(acc, ms[i][1], ValueOf(ms[i][2])))

\* Field names of SceneConfig and ShapeData.
KShapes == <<"s", "h", "a", "p", "e", "s">>
KId == <<"i", "d">>
KPosition == <<"p", "o", "s", "i", "t", "i", "o", "n">>
KBackgroundColor ==
  <<"b", "a", "c", "k", "g", "r", "o", "u", "n", "d", "C", "o", "l", "o", "r">>
KAmbientLightColor ==
  <<"a", "m", "b", "i", "e", "n", "t", "L", "i", "g", "h", "t", "C", "o", "l", "o", "r">>
KAmbientLightIntensity ==
  <<"a", "m", "b", "i", "e", "n", "t", "L", "i", "g", "h", "t",
    "I", "n", "t", "e", "n", "s", "i", "t", "y">>

\* Largest number of shapes in a generated scene document.
MaxShapes == 2

ShapeIds == <<"x", "y", "z", "w", "v", "u">>

TOne == TNum(<<"1">>, 1, 0)
THalf == TNum(<<"0", ".", "5">>, 5, 1)
TSevenTenths == TNum(<<"0", ".", "7">>, 7, 1)
TSeventyHundredths == TNum(<<"0", ".", "7", "0">>, 70, 2)
TBlack == TStr(<<"#", "0">>)
TWhite == TStr(<<"#", "f">>)

\* The i-th shape, with or without a position array.
ShapeT(i, withPos) ==
  TObj(<<<<KId, TStr(<<ShapeIds[i]>>)>>>>
       \o (IF withPos THEN <<<<KPosition, TArr(<<TOne, TOne>>)>>>> ELSE <<>>))

\* Members written before and after "shapes".
Pres ==
  { <<>>,
    <<<<KBackgroundColor, TBlack>>>>,
    <<<<KBackgroundColor, TBlack>>, <<KAmbientLightColor, TWhite>>,
      <<KAmbientLightIntensity, THalf>>>>,
    <<<<KAmbientLightIntensity, TSevenTenths>>>> }

Posts ==
  { <<>>, <<<<KAmbientLightIntensity, TSeventyHundredths>>>> }

SceneDoc(pre, n, withPos, post) ==
  TObj(pre \o <<<<KShapes, TArr([i \in 1..n |-> ShapeT(i, withPos)])>>>> \o post)

SceneDocs ==
  { SceneDoc(pre, n, withPos, post) :
      pre \in Pres, n \in 0..MaxShapes, withPos \in BOOLEAN, post \in Posts }

TIdX == TObj(<<<<KId, TStr(<<"x">>)>>>>)

\* Other answers: not a scene, deeper nesting, or punctuation inside strings.
OtherDocs ==
  { TOne, TStr(<<"a">>), TLit(LitNull), TLit(LitTrue),
    TStr(<<"a", "{", "b">>),
    TArr(<<>>), TArr(<<TOne, THalf>>), TArr(<<TIdX>>), TArr(<<TIdX, TIdX>>),
    TObj(<<>>),
    TObj(<<<<KShapes, TLit(LitNull)>>>>),
    TObj(<<<<KShapes, TOne>>>>),
    TObj(<<<<KShapes, TStr(<<"a", "b">>)>>>>),
    TObj(<<<<KId, TStr(<<"}", "{">>)>>>>),
    TObj(<<<<KId, TStr(<<",", "}">>)>>>>),
    TObj(<<<<KId, TStr(<<"[">>)>>, <<KShapes, TArr(<<TIdX>>)>>>>),
    TObj(<<<<KId, TStr(<<Backtick, Backtick, Backtick>>)>>>>),
    TObj(<<<<KId, TStr(<<"a", " ", Backtick, Backtick, Backtick, "j", "s", "o", "n", " ", "b">>)>>>>),
    TObj(<<<<KId, TIdX>>, <<KShapes, TArr(<<TIdX>>)>>>>),
    TObj(<<<<KShapes, TArr(<<TObj(<<<<KShapes, TArr(<<TIdX>>)>>>>)>>)>>>>) }

Docs == SceneDocs \cup OtherDocs

Spacings == { <<>>, <<" ">> }

Prose == <<"O", "K", ":", "\n">>

\* Position i of a rendered document lies outside its string literals.
Structural(t, i) == Cardinality({j \in 1..(i - 1) : t[j] = "\""}) % 2 = 0

\* The closers of t: a trailing comma may be written before each.
ClosersOf(t) ==
  {i \in 1..Len(t) : t[i] \in {"}", "]"} /\ Structural(t, i)}

\* The commas of t between two object literals: each may be left out.
ObjectSeparatorsOf(t) ==
  {i \in 2..(Len(t) - 1) :
     /\ t[i] = ","
     /\ t[i - 1] = "}"
     /\ Structural(t, i)
     /\ t[SkipWS(t, i + 1)] = "{"}

\* A second object literal written right after a document.
Adjacent == <<"{", "\"", "b", "\"", ":", "2", "}">>

\* The response text for a rendered document under a damage.
Damaged(t, d) ==
  CASE d.kind = "prefix" -> SubSeq(t, 1, d.n)
    [] d.kind = "fenced" -> FenceJson \o <<"\n">> \o SubSeq(t, 1, d.n) \o <<"\n">> \o Fence
    [] d.kind = "barefence" -> Fence \o <<"\n">> \o SubSeq(t, 1, d.n) \o <<"\n">> \o Fence
    [] d.kind = "prose" -> Prose \o SubSeq(t, 1, d.n)
    [] d.kind = "comma" -> SubSeq(t, 1, d.n - 1) \o <<",">> \o SubSeq(t, d.n, Len(t))
    [] d.kind = "nocomma" -> SubSeq(t, 1, d.n - 1) \o SubSeq(t, d.n + 1, Len(t))
    [] d.kind = "adjacent" -> SubSeq(t, 1, d.n) \o Adjacent

\* prefix with n = Len(t) leaves the text whole.
DamagesOf(t) ==
  [kind : {"prefix"}, n : 0..Len(t)]
    \cup [kind : {"fenced", "barefence", "prose", "adjacent"}, n : {Len(t)}]
    \cup [kind : {"comma"}, n : ClosersOf(t)]
    \cup [kind : {"nocomma"}, n : ObjectSeparatorsOf(t)]

----------------------------------------------------------------------------
(* State.                                                                  *)

VARIABLES
  \* cleanAndParseJSON
  doc,          \* the document the endpoint meant to write
  text,         \* the text handed to cleanAndParseJSON
  parsed,       \* its result, or Pending before the call
  thrown,       \* the error it threw
  console,      \* what it wrote to the console, in order
  \* generateSingleView, one call per view
  viewPc,       \* "idle", "inflight", "backoff", "done" or "failed"
  attempt,      \* loop counter of the retry loop
  issued,       \* requests issued by the call so far
  reference,    \* the referenceImage argument of the call
  waits,        \* the backoff delays the call has awaited, in order
  lastError,    \* lastError.message
  image,        \* the payload the call returned
  viewError,    \* the error the call threw
  \* generateReferenceImages
  builderPc,    \* "idle", "front", "delay", "join", "done" or "failed"
  builderError, \* the error it rethrew
  \* generateSceneWorkflow
  wfPc,         \* where the generator is suspended or what it awaits
  events,       \* the events yielded so far, in order
  wfRequests,   \* the requests issued so far, in order
  wfPending,    \* the number of requests not yet settled
  analysisText, \* let analysisText
  sceneData,    \* const sceneData
  finalSceneData,  \* const finalSceneData
  wfError,      \* the error the generator threw
  \* generateSceneFromPrompt
  batchPc,      \* "idle", "draining", "returned" or "failed"
  batchRefs,    \* was the referenceImages argument given?
  finalConfig,  \* let finalConfig
  batchError,   \* the message of the error it threw
  \* App
  appPc,        \* "idle", "images", "workflow", "done" or "failed"
  generationState,  \* isGenerating, error, statusMessage
  referenceImages,  \* the published reference image set, or null
  sceneConfig,  \* the displayed scene
  stages,       \* the four process stages: status and logs
  runs          \* calls of handleGenerate made, those that have ended, the
                \* prompt of the last one, and whether Clear was pressed
                \* since: "no", "idle" (no run in flight) or "running"

jsonVars == <<doc, text, parsed, thrown, console>>
viewVars ==
  <<viewPc, attempt, issued, reference, waits, lastError, image, viewError>>
builderVars == <<builderPc, builderError>>
wfVars ==
  <<wfPc, events, wfRequests, wfPending, analysisText, sceneData,
    finalSceneData, wfError>>
batchVars == <<batchPc, batchRefs, finalConfig, batchError>>
appVars ==
  <<appPc, generationState, referenceImages, sceneConfig, stages, runs>>
consumerVars == <<batchVars, appVars>>
vars == <<jsonVars, viewVars, builderVars, wfVars, consumerVars>>

Pending == [ok |-> FALSE, val |-> JNull, via |-> "pending"]

JSONIdle ==
  /\ doc = TLit(LitNull)
  /\ text = <<>>
  /\ parsed = Pending
  /\ thrown = NoThrow
  /\ console = <<>>

----------------------------------------------------------------------------
(* Scene workflow orchestrator: generateSceneWorkflow.                     *)

NoScene == JNull

\* A yielded event; logs is the number of log lines.
Event(stage, logs) ==
  [stageId |-> stage, logs |-> logs, hasScene |-> FALSE, sceneConfig |-> NoScene]
SceneEvent(stage, logs, scene) ==
  [stageId |-> stage, logs |-> logs, hasScene |-> TRUE, sceneConfig |-> scene]

FallbackAnalysis ==
  "Visual analysis completed successfully. Requirement: 100k Polys, Quad-dominant Topology."

\* analysisResponse.text: empty (falsy) or a report
AnalysisTexts == {"", "Technical report"}

\* analysisText = analysisResponse.text || "Analysis complete."
AnalysisTextOf(t) == IF t = "" THEN "Analysis complete." ELSE t

\* sceneData.shapes.length evaluates without a TypeError: sceneData has a
\* member shapes that is neither undefined nor null.
ShapesReadable(v) ==
  /\ IsObj(v)
  /\ KShapes \in DOMAIN v.obj
  /\ ~IsNullV(v.obj[KShapes])

\* Variant: a fresh object that keeps only the shapes.
FinalSceneOf_OnlyShapes(scene) ==
  JObj(PutMember(PutMember(EmptyMembers, KShapes, scene.obj[KShapes]),
                 KAmbientLightIntensity, JNum(7, 1)))

\* Variant: the copy without the override.
FinalSceneOf_Unchanged(scene) == scene

\* const finalSceneData = { ...sceneData };
\* finalSceneData.ambientLightIntensity = 0.7;
FinalSceneOf(scene) ==
  JObj(PutMember(scene.obj, KAmbientLightIntensity, JNum(7, 1)))

\* Responses of the modeling request: a rendered document, whole, fenced, or
\* cut after one of its "}" or ",".
ModelDamagesOf(t) ==
  { d \in DamagesOf(t) :
      \/ d.kind \in {"fenced", "prose"}
      \/ d.kind = "prefix" /\ (d.n = Len(t) \/ (d.n > 0 /\ t[d.n] \in {"}", ","})) }

WorkflowIdle ==
  /\ wfPc = "start"
  /\ events = <<>>
  /\ wfRequests = <<>>
  /\ wfPending = 0
  /\ analysisText = ""
  /\ sceneData = NoScene
  /\ finalSceneData = NoScene
  /\ wfError = "none"

\* generateSceneFromPrompt has not been called.
BatchIdle ==
  /\ batchPc = "idle"
  /\ batchRefs = FALSE
  /\ finalConfig = NoScene
  /\ batchError = "none"

\* A request of the workflow and how it settled.
Request(kind, analysis) ==
  [kind |-> kind, analysis |-> analysis, outcome |-> "pending"]

Settle(reqs, outcome) == [reqs EXCEPT ![Len(reqs)].outcome = outcome]

\* Where the body stops when it is resumed from a yield: at its next
\* await, or at its end.
AwaitAfterYield(pc) ==
  CASE pc = "yield1a" -> "delay800"
    [] pc = "yield1b" -> "delay500"
    [] pc = "yield2a" -> "modeling"
    [] pc = "yield2b" -> "delay800b"
    [] pc = "yield3a" -> "delay1200"
    [] pc = "yield3b" -> "delay800c"
    [] pc = "yield4a" -> "delay1000"
    [] pc = "yield4b" -> "done"

\* Variant: the first stage-3 event carries the scene as well.
YieldAfterDelay_SceneOnBothStage3(pc, scene, final) ==
  CASE pc = "delay500" -> <<Event(2, 4), "yield2a">>
    [] pc = "delay800b" -> <<SceneEvent(3, 3, scene), "yield3a">>
    [] pc = "delay1200" -> <<SceneEvent(3, 3, scene), "yield3b">>
    [] pc = "delay800c" -> <<Event(4, 3), "yield4a">>
    [] pc = "delay1000" -> <<SceneEvent(4, 2, final), "yield4b">>

\* The yield that follows an awaited delay: <<event, suspension point>>.
\* scene is sceneData and final is finalSceneData.
YieldAfterDelay(pc, scene, final) ==
  CASE pc = "delay500" -> <<Event(2, 4), "yield2a">>
    [] pc = "delay800b" -> <<Event(3, 3), "yield3a">>
    [] pc = "delay1200" -> <<SceneEvent(3, 3, scene), "yield3b">>
    [] pc = "delay800c" -> <<Event(4, 3), "yield4a">>
    [] pc = "delay1000" -> <<SceneEvent(4, 2, final), "yield4b">>

\* Variant: texturing issues a request of its own.
Pull_RequestsInStage3 ==
  /\ wfPc \in {"start", "yield1a", "yield1b", "yield2a", "yield2b", "yield3a",
               "yield3b", "yield4a", "yield4b"}
  /\ IF wfPc = "start" THEN
       /\ events' = Append(events, Event(1, 2))
       /\ wfPc' = "yield1a"
       /\ UNCHANGED <<wfRequests, wfPending, finalSceneData>>
     ELSE
       /\ wfPc' = AwaitAfterYield(wfPc)
       /\ wfRequests' =
            IF wfPc \in {"yield2a", "yield3a"}
            THEN Append(wfRequests, Request("modeling", analysisText))
            ELSE wfRequests
       /\ wfPending' = IF wfPc = "yield2a" THEN wfPending + 1 ELSE wfPending
       /\ finalSceneData' =
            IF wfPc = "yield4a" THEN FinalSceneOf(sceneData) ELSE finalSceneData
       /\ UNCHANGED events
  /\ UNCHANGED <<analysisText, sceneData, wfError, jsonVars, viewVars, builderVars>>

\* Variant: the override is written to sceneData itself, not to a copy.
Pull_OverridesInPlace ==
  /\ wfPc \in {"start", "yield1a", "yield1b", "yield2a", "yield2b", "yield3a",
               "yield3b", "yield4a", "yield4b"}
  /\ IF wfPc = "start" THEN
       /\ events' = Append(events, Event(1, 2))
       /\ wfPc' = "yield1a"
       /\ UNCHANGED <<wfRequests, wfPending, finalSceneData>>
     ELSE
       /\ wfPc' = AwaitAfterYield(wfPc)
       /\ wfRequests' =
            IF wfPc = "yield2a"
            THEN Append(wfRequests, Request("modeling", analysisText))
            ELSE wfRequests
       /\ wfPending' = IF wfPc = "yield2a" THEN wfPending + 1 ELSE wfPending
       /\ finalSceneData' =
            IF wfPc = "yield4a" THEN FinalSceneOf(sceneData) ELSE finalSceneData
       /\ UNCHANGED events
  /\ sceneData' = IF wfPc = "yield4a" THEN FinalSceneOf(sceneData) ELSE sceneData
  /\ UNCHANGED <<analysisText, wfError, jsonVars, viewVars, builderVars>>

\* The consumer calls next(): the body runs from its suspension point to
\* its next await (or, on the first call, to its first yield).
Pull ==
  /\ wfPc \in {"start", "yield1a", "yield1b", "yield2a", "yield2b", "yield3a",
               "yield3b", "yield4a", "yield4b"}
  /\ IF wfPc = "start" THEN
       /\ events' = Append(events, Event(1, 2))
       /\ wfPc' = "yield1a"
       /\ UNCHANGED <<wfRequests, wfPending, finalSceneData>>
     ELSE
       /\ wfPc' = AwaitAfterYield(wfPc)
       /\ wfRequests' =
            IF wfPc = "yield2a"
            THEN Append(wfRequests, Request("modeling", analysisText))
            ELSE wfRequests
       /\ wfPending' = IF wfPc = "yield2a" THEN wfPending + 1 ELSE wfPending
       /\ finalSceneData' =
            IF wfPc = "yield4a" THEN FinalSceneOf(sceneData) ELSE finalSceneData
       /\ UNCHANGED events
  /\ UNCHANGED <<analysisText, sceneData, wfError, jsonVars, viewVars, builderVars>>

\* Variant: the analysis request is issued but not awaited.
DelayElapsed_AnalysisNotAwaited ==
  /\ wfPc \in {"delay800", "delay500", "delay800b", "delay1200", "delay800c",
               "delay1000"}
  /\ IF wfPc = "delay800" THEN
       /\ wfRequests' = Append(wfRequests, Request("analysis", ""))
       /\ wfPending' = wfPending + 1
       /\ wfPc' = "yield1b"
       /\ events' = Append(events, Event(1, 4))
     ELSE
       /\ events' = Append(events, YieldAfterDelay(wfPc, sceneData, finalSceneData)[1])
       /\ wfPc' = YieldAfterDelay(wfPc, sceneData, finalSceneData)[2]
       /\ UNCHANGED <<wfRequests, wfPending>>
  /\ UNCHANGED <<analysisText, sceneData, finalSceneData, wfError,
                 jsonVars, viewVars, builderVars>>

\* An awaited delay(ms) elapses: after the first delay the analysis request
\* is issued, after the others the next event is yielded.
DelayElapsed ==
  /\ wfPc \in {"delay800", "delay500", "delay800b", "delay1200", "delay800c",
               "delay1000"}
  /\ IF wfPc = "delay800" THEN
       /\ wfRequests' = Append(wfRequests, Request("analysis", ""))
       /\ wfPending' = wfPending + 1
       /\ wfPc' = "analysis"
       /\ UNCHANGED events
     ELSE
       /\ events' = Append(events, YieldAfterDelay(wfPc, sceneData, finalSceneData)[1])
       /\ wfPc' = YieldAfterDelay(wfPc, sceneData, finalSceneData)[2]
       /\ UNCHANGED <<wfRequests, wfPending>>
  /\ UNCHANGED <<analysisText, sceneData, finalSceneData, wfError,
                 jsonVars, viewVars, builderVars>>

\* Variant: no try/catch around the analysis request.
AnalysisResponds_Propagates ==
  /\ wfPc = "analysis"
  /\ wfPending' = wfPending - 1
  /\ \E threw \in BOOLEAN, t \in AnalysisTexts :
       /\ threw => t = ""
       /\ wfRequests' = Settle(wfRequests, IF threw THEN "threw" ELSE "returned")
       /\ IF threw THEN
            /\ wfPc' = "failed"
            /\ wfError' = "request failed"
            /\ UNCHANGED <<analysisText, events>>
          ELSE
            /\ analysisText' = AnalysisTextOf(t)
            /\ events' = Append(events, Event(1, 4))
            /\ wfPc' = "yield1b"
            /\ UNCHANGED wfError
  /\ UNCHANGED <<sceneData, finalSceneData, jsonVars, viewVars, builderVars>>

\* The analysis request settles; a thrown error is caught and replaced by
\* the fallback text.  The second stage-1 event follows either way.
AnalysisResponds ==
  /\ wfPc = "analysis"
  /\ \E threw \in BOOLEAN, t \in AnalysisTexts :
       /\ threw => t = ""
       /\ analysisText' = IF threw THEN FallbackAnalysis ELSE AnalysisTextOf(t)
       /\ wfRequests' = Settle(wfRequests, IF threw THEN "threw" ELSE "returned")
  /\ wfPending' = wfPending - 1
  /\ events' = Append(events, Event(1, 4))
  /\ wfPc' = "yield1b"
  /\ UNCHANGED <<sceneData, finalSceneData, wfError,
                 jsonVars, viewVars, builderVars>>

\* Variant: a thrown modeling request is issued again.
ModelingThrows_Retries ==
  /\ wfPc = "modeling"
  /\ Len(wfRequests) < 3
  /\ wfRequests' = Append(Settle(wfRequests, "threw"),
                          Request("modeling", analysisText))
  /\ UNCHANGED <<wfPc, wfPending, wfError, events, analysisText, sceneData,
                 finalSceneData, jsonVars, viewVars, builderVars>>

\* The modeling request throws: nothing catches it, the generator ends.
ModelingThrows ==
  /\ wfPc = "modeling"
  /\ wfRequests' = Settle(wfRequests, "threw")
  /\ wfPending' = wfPending - 1
  /\ wfPc' = "failed"
  /\ wfError' = "request failed"
  /\ UNCHANGED <<events, analysisText, sceneData, finalSceneData,
                 jsonVars, viewVars, builderVars>>

\* modelResponse.text is undefined: text.replace throws a TypeError.
ModelingNoText ==
  /\ wfPc = "modeling"
  /\ wfRequests' = Settle(wfRequests, "returned")
  /\ wfPending' = wfPending - 1
  /\ wfPc' = "failed"
  /\ wfError' = "TypeError"
  /\ UNCHANGED <<events, analysisText, sceneData, finalSceneData,
                 jsonVars, viewVars, builderVars>>

\* const sceneData = cleanAndParseJSON(modelResponse.text) and the yield of
\* the second stage-2 event, whose first log line reads
\* sceneData.shapes.length.  (r is bound once to the result of the call.)
ModelingAnswers(d, t) ==
  \E r \in {cleanAndParseJSON(t)} :
      /\ doc' = d
      /\ text' = t
      /\ parsed' = r
      /\ thrown' = ThrownOf(r)
      /\ console' = console \o ConsoleOf(t, r)
      /\ IF ~r.ok THEN
           /\ wfPc' = "failed"
           /\ wfError' = ParseFailureMessage
           /\ UNCHANGED <<events, sceneData>>
         ELSE IF ~ShapesReadable(r.val) THEN
           /\ wfPc' = "failed"
           /\ wfError' = "TypeError"
           /\ sceneData' = r.val
           /\ UNCHANGED events
         ELSE
           /\ wfPc' = "yield2b"
           /\ sceneData' = r.val
           /\ events' = Append(events, SceneEvent(2, 3, r.val))
           /\ UNCHANGED wfError

\* The modeling request returns a response with text.
ModelingReturnsOneOf(docs) ==
  /\ wfPc = "modeling"
  /\ wfRequests' = Settle(wfRequests, "returned")
  /\ wfPending' = wfPending - 1
  /\ \E d \in docs :
       \E rendered \in {Render(d, <<>>)} :
         \E dm \in ModelDamagesOf(rendered) :
           \E t \in {Damaged(rendered, dm)} : ModelingAnswers(d, t)
  /\ UNCHANGED <<analysisText, finalSceneData, viewVars, builderVars>>

\* The model answers with any of the documents.
ModelingReturns == ModelingReturnsOneOf(Docs)

----------------------------------------------------------------------------
(* Image generation client: generateSingleView.                            *)

Views == {"front", "back", "left", "right"}
Conditioned == {"back", "left", "right"}

\* const views = {...}: the label handed to generateSingleView
ViewLabel(v) ==
  CASE v = "front" -> "Front view"
    [] v = "back" -> "Back view"
    [] v = "left" -> "Left side profile view"
    [] v = "right" -> "Right side profile view"

\* retries = 3, the default no caller overrides
DefaultRetries == 3

NoImage == "undefined"
Images == {"imgA", "imgB"}

NoError == [kind |-> "none", view |-> "", last |-> "", attempt |-> 0]

\* new Error(`Model returned no image data for ${view}`)
NoImageDataError(label) == [kind |-> "no image data", view |-> label, last |-> ""]

\* an error thrown by ai.models.generateContent
NetworkError == [kind |-> "network", view |-> "", last |-> ""]

\* new Error(`Failed to generate ${view} after ${retries} attempts. Last
\* error: ${lastError?.message}`); last is the kind of the wrapped error
ExhaustedError(label, last) ==
  [kind |-> "exhausted", view |-> label, last |-> last.kind]

\* Largest number of parts in a response of the image model.
MaxParts == 2

\* A part: text only (no inlineData), inlineData without data, or image data.
Parts ==
  { [inline |-> FALSE, data |-> ""], [inline |-> TRUE, data |-> ""] }
    \cup [inline : {TRUE}, data : Images]

\* A response: no candidates / no content parts, or a list of parts.
Responses ==
  { [candidates |-> FALSE, parts |-> <<>>] }
    \cup UNION { [candidates : {TRUE}, parts : [1..n -> Parts]] : n \in 0..MaxParts }

\* for (const part of ...parts) if (part.inlineData && part.inlineData.data)
\* return part.inlineData.data  -- NoImage when the loop finds none
RECURSIVE FirstImageFrom(_, _)
FirstImageFrom(parts, i) ==
  IF i > Len(parts) THEN NoImage
  ELSE IF parts[i].inline /\ parts[i].data # "" THEN parts[i].data
  ELSE FirstImageFrom(parts, i + 1)

\* Variant: the data of the first inlineData part, empty or not.
ImageOf_UncheckedData(response) ==
  IF response.candidates /\ \E i \in 1..Len(response.parts) : response.parts[i].inline
  THEN response.parts[CHOOSE i \in 1..Len(response.parts) :
                        /\ response.parts[i].inline
                        /\ \A j \in 1..(i - 1) : ~response.parts[j].inline].data
  ELSE NoImage

ImageOf(response) ==
  IF response.candidates THEN FirstImageFrom(response.parts, 1) ELSE NoImage

\* const waitTime = 1000 * Math.pow(2, attempt - 1)
WaitTime(a) == 1000 * 2 ^ (a - 1)

\* Variant: the delay is awaited after the final attempt too.
BacksOff_AfterEveryAttempt(a, retries) == a <= retries

\* if (attempt < retries) await delay(waitTime)
BacksOff(a, retries) == a < retries

\* The call generateSingleView(prompt, views[v], ref): the function runs up
\* to its first await, so the first request is issued within the call.
StartView(v, ref) ==
  /\ viewPc' = [viewPc EXCEPT ![v] = "inflight"]
  /\ attempt' = [attempt EXCEPT ![v] = 1]
  /\ issued' = [issued EXCEPT ![v] = 1]
  /\ reference' = [reference EXCEPT ![v] = ref]

\* The error object thrown in attempt a.
AttemptError(e, a) ==
  [kind |-> e.kind, view |-> e.view, last |-> e.last, attempt |-> a]

\* Variant: only the first error is kept.
Caught_KeepsFirst(previous, error) ==
  IF previous = NoError THEN error ELSE previous

\* catch (error) { lastError = error; ... }
Caught(previous, error) == error

\* Variant: the join resolves with the first fulfilment.
BuilderAfter_FirstFulfilment(v, pcs) ==
  IF v = "front" /\ builderPc = "front" THEN
    (IF pcs[v] = "done" THEN "delay"
     ELSE IF pcs[v] = "failed" THEN "failed" ELSE builderPc)
  ELSE IF v \in Conditioned /\ builderPc = "join" THEN
    (IF pcs[v] = "failed" THEN "failed"
     ELSE IF pcs[v] = "done" THEN "done"
     ELSE builderPc)
  ELSE builderPc

\* Variant: a failed front call does not end the builder.
BuilderAfter_IgnoresFrontFailure(v, pcs) ==
  IF v = "front" /\ builderPc = "front" THEN
    (IF pcs[v] \in {"done", "failed"} THEN "delay" ELSE builderPc)
  ELSE IF v \in Conditioned /\ builderPc = "join" THEN
    (IF pcs[v] = "failed" THEN "failed"
     ELSE IF \A w \in Conditioned : pcs[w] = "done" THEN "done"
     ELSE builderPc)
  ELSE builderPc

\* What the settling of view v's call does to generateReferenceImages:
\* the front call feeds the first await, the other three feed Promise.all,
\* which rejects with the first rejection and resolves with the last
\* fulfilment.  pcs is the view status after the settling.
BuilderAfter(v, pcs) ==
  IF v = "front" /\ builderPc = "front" THEN
    (IF pcs[v] = "done" THEN "delay"
     ELSE IF pcs[v] = "failed" THEN "failed" ELSE builderPc)
  ELSE IF v \in Conditioned /\ builderPc = "join" THEN
    (IF pcs[v] = "failed" THEN "failed"
     ELSE IF \A w \in Conditioned : pcs[w] = "done" THEN "done"
     ELSE builderPc)
  ELSE builderPc

\* Variant: the loop makes one more turn.
LoopContinues_OneMore(a, retries) == a <= retries + 1

\* for (let attempt = 1; attempt <= retries; attempt++)
LoopContinues(a, retries) == a <= retries

\* The status of a call whose loop counter becomes a: the next request is
\* in flight, or the loop is over and the call throws.
AtLoopHead(a) ==
  IF LoopContinues(a, DefaultRetries) THEN "inflight" ELSE "failed"

\* The pending request of view v settles: with a response, or by throwing.
\* A failed attempt is caught, recorded in lastError and followed by the
\* backoff delay or directly by the next turn of the loop.  On return the
\* local lastError goes out of scope (NoError).
RespondWith(v, responses) ==
  /\ viewPc[v] = "inflight"
  /\ \E threw \in BOOLEAN, response \in responses :
       LET img == ImageOf(response)
           ok == ~threw /\ img # NoImage
           error == Caught(lastError[v],
                           AttemptError(IF threw THEN NetworkError
                                        ELSE NoImageDataError(ViewLabel(v)),
                                        attempt[v]))
           pc2 == IF ok THEN "done"
                  ELSE IF BacksOff(attempt[v], DefaultRetries) THEN "backoff"
                  ELSE AtLoopHead(attempt[v] + 1)
           pcs == [viewPc EXCEPT ![v] = pc2]
       IN  /\ threw => response = [candidates |-> FALSE, parts |-> <<>>]
           /\ viewPc' = pcs
           /\ attempt' = [attempt EXCEPT ![v] =
                            IF pc2 \in {"inflight", "failed"} THEN @ + 1 ELSE @]
           /\ issued' = [issued EXCEPT ![v] =
                           IF pc2 = "inflight" THEN @ + 1 ELSE @]
           /\ image' = [image EXCEPT ![v] = IF ok THEN img ELSE @]
           /\ lastError' = [lastError EXCEPT ![v] = IF ok THEN NoError ELSE error]
           /\ waits' = [waits EXCEPT ![v] =
                          IF pc2 = "backoff"
                          THEN Append(@, WaitTime(attempt[v])) ELSE @]
           /\ viewError' = [viewError EXCEPT ![v] =
                              IF pc2 = "failed"
                              THEN ExhaustedError(ViewLabel(v), error) ELSE @]
           /\ builderPc' = BuilderAfter(v, pcs)
           /\ builderError' =
                IF BuilderAfter(v, pcs) = "failed" /\ builderPc # "failed"
                THEN ExhaustedError(ViewLabel(v), error) ELSE builderError
  /\ UNCHANGED <<reference, jsonVars, wfVars>>

\* The image model answers with any response.
Respond(v) == RespondWith(v, Responses)

\* The backoff delay of view v elapses: the loop counter is incremented and
\* the loop issues its next request, or ends and the call throws.
BackoffElapsed(v) ==
  LET pc2 == AtLoopHead(attempt[v] + 1)
      pcs == [viewPc EXCEPT ![v] = pc2]
  IN  /\ viewPc[v] = "backoff"
      /\ viewPc' = pcs
      /\ attempt' = [attempt EXCEPT ![v] = @ + 1]
      /\ issued' = [issued EXCEPT ![v] = IF pc2 = "inflight" THEN @ + 1 ELSE @]
      /\ viewError' = [viewError EXCEPT ![v] =
                         IF pc2 = "failed"
                         THEN ExhaustedError(ViewLabel(v), lastError[v]) ELSE @]
      /\ builderPc' = BuilderAfter(v, pcs)
      /\ builderError' =
           IF BuilderAfter(v, pcs) = "failed" /\ builderPc # "failed"
           THEN ExhaustedError(ViewLabel(v), lastError[v]) ELSE builderError
      /\ UNCHANGED <<reference, waits, lastError, image, jsonVars, wfVars>>

----------------------------------------------------------------------------
(* Reference image set builder: generateReferenceImages.                   *)

ViewsIdle ==
  /\ viewPc = [v \in Views |-> "idle"]
  /\ attempt = [v \in Views |-> 0]
  /\ issued = [v \in Views |-> 0]
  /\ reference = [v \in Views |-> NoImage]
  /\ waits = [v \in Views |-> <<>>]
  /\ lastError = [v \in Views |-> NoError]
  /\ image = [v \in Views |-> NoImage]
  /\ viewError = [v \in Views |-> NoError]

BuilderIdle ==
  /\ builderPc = "idle"
  /\ builderError = NoError

\* generateReferenceImages(prompt) is called: Step 1, the front view,
\* unconditioned.
CallGenerateReferenceImages ==
  /\ builderPc = "idle"
  /\ builderPc' = "front"
  /\ StartView("front", NoImage)
  /\ UNCHANGED <<waits, lastError, image, viewError, builderError, jsonVars,
                 wfVars>>

\* Variant: the three calls are made without awaiting the front call.
StartConditionedViews_WithoutAwaitingFront ==
  /\ builderPc = "front"
  /\ builderPc' = "join"
  /\ viewPc' = [v \in Views |-> IF v \in Conditioned THEN "inflight" ELSE viewPc[v]]
  /\ attempt' = [v \in Views |-> IF v \in Conditioned THEN 1 ELSE attempt[v]]
  /\ issued' = [v \in Views |-> IF v \in Conditioned THEN 1 ELSE issued[v]]
  /\ reference' = [v \in Views |->
                     IF v \in Conditioned THEN image["front"] ELSE reference[v]]
  /\ UNCHANGED <<waits, lastError, image, viewError, builderError, jsonVars,
                 wfVars>>

\* await delay(200) elapses: Step 2, Promise.all over the three calls, each
\* with the front image as referenceImage.
StartConditionedViews ==
  /\ builderPc = "delay"
  /\ builderPc' = "join"
  /\ viewPc' = [v \in Views |-> IF v \in Conditioned THEN "inflight" ELSE viewPc[v]]
  /\ attempt' = [v \in Views |-> IF v \in Conditioned THEN 1 ELSE attempt[v]]
  /\ issued' = [v \in Views |-> IF v \in Conditioned THEN 1 ELSE issued[v]]
  /\ reference' = [v \in Views |->
                     IF v \in Conditioned THEN image["front"] ELSE reference[v]]
  /\ UNCHANGED <<waits, lastError, image, viewError, builderError, jsonVars,
                 wfVars>>

\* return { front, back, left, right }
ReferenceImages == image

\* useState<ReferenceImages | null>(null), and a published set
NullReferenceImages == [isNull |-> TRUE, views |-> [v \in Views |-> NoImage]]
PublishedImages(images) == [isNull |-> FALSE, views |-> images]

\* error: null; a message is a tuple of its parts
NullError == <<>>

\* const INITIAL_SCENE
INITIAL_SCENE ==
  JObj(PutMember(PutMember(PutMember(PutMember(EmptyMembers,
    KBackgroundColor, JStr(<<"#", "0", "f", "1", "7", "2", "a">>)),
    KAmbientLightColor, JStr(<<"#", "f", "f", "f", "f", "f", "f">>)),
    KAmbientLightIntensity, JNum(5, 1)),
    KShapes, JArr(<<>>)))

StageIdSet == 1..4

\* const INITIAL_STAGES: logs is the number of log lines of the stage.
INITIAL_STAGES == [k \in StageIdSet |-> [status |-> "pending", logs |-> 0]]

\* The App as mounted: useState initial values.
AppIdle ==
  /\ appPc = "idle"
  /\ generationState = [isGenerating |-> FALSE, error |-> NullError, statusMessage |-> ""]
  /\ referenceImages = NullReferenceImages
  /\ sceneConfig = INITIAL_SCENE
  /\ stages = INITIAL_STAGES
  /\ runs = [started |-> 0, ended |-> 0, prompt |-> <<>>, cleared |-> "no"]

InitImages ==
  /\ JSONIdle
  /\ ViewsIdle
  /\ BuilderIdle
  /\ WorkflowIdle
  /\ BatchIdle
  /\ AppIdle

NextImages ==
  \/ CallGenerateReferenceImages /\ UNCHANGED consumerVars
  \/ \E v \in Views : Respond(v) /\ UNCHANGED consumerVars
  \/ \E v \in Views : BackoffElapsed(v) /\ UNCHANGED consumerVars
  \/ StartConditionedViews /\ UNCHANGED consumerVars

SpecImages == InitImages /\ [][NextImages]_vars

----------------------------------------------------------------------------
(* The JSON repair utility on its own: one call of cleanAndParseJSON.      *)

InitJSON ==
  /\ doc \in Docs
  /\ \E sp \in Spacings :
       \E d \in DamagesOf(Render(doc, sp)) :
         text = Damaged(Render(doc, sp), d)
  /\ parsed = Pending
  /\ thrown = NoThrow
  /\ console = <<>>
  /\ ViewsIdle
  /\ BuilderIdle
  /\ WorkflowIdle
  /\ BatchIdle
  /\ AppIdle

CallCleanAndParseJSON ==
  /\ parsed.via = "pending"
  /\ \E r \in {cleanAndParseJSON(text)} :
       /\ parsed' = r
       /\ thrown' = ThrownOf(r)
       /\ console' = console \o ConsoleOf(text, r)
  /\ UNCHANGED <<doc, text, viewVars, builderVars, wfVars>>

NextJSON == CallCleanAndParseJSON /\ UNCHANGED consumerVars

SpecJSON == InitJSON /\ [][NextJSON]_vars

----------------------------------------------------------------------------
(* Scene workflow: generateSceneWorkflow driven by its consumer.           *)

InitWorkflow ==
  /\ JSONIdle
  /\ ViewsIdle
  /\ BuilderIdle
  /\ WorkflowIdle
  /\ BatchIdle
  /\ AppIdle

NextWorkflow ==
  \/ Pull /\ UNCHANGED consumerVars
  \/ DelayElapsed /\ UNCHANGED consumerVars
  \/ AnalysisResponds /\ UNCHANGED consumerVars
  \/ ModelingThrows /\ UNCHANGED consumerVars
  \/ ModelingNoText /\ UNCHANGED consumerVars
  \/ ModelingReturns /\ UNCHANGED consumerVars

SpecWorkflow == InitWorkflow /\ [][NextWorkflow]_vars

----------------------------------------------------------------------------
(* Batch form: generateSceneFromPrompt drains the workflow.                *)

\* JavaScript truthiness of a parsed value.
Truthy(v) ==
  IF IsNullV(v) THEN FALSE
  ELSE IF DOMAIN v = {"bool"} THEN v.bool
  ELSE IF IsNum(v) THEN v.num[1] # 0
  ELSE IF IsStr(v) THEN v.str # <<>>
  ELSE TRUE

\* Variant: only the stage-2 preview is taken.
ConfigAfter_PreviewOnly(current, update) ==
  IF update.hasScene /\ Truthy(update.sceneConfig) /\ update.stageId = 2
  THEN update.sceneConfig
  ELSE current

\* Variant: the first scene received is kept.
ConfigAfter_KeepsFirst(current, update) ==
  IF current # NoScene THEN current
  ELSE IF update.hasScene /\ Truthy(update.sceneConfig) THEN update.sceneConfig
  ELSE current

\* if (update.sceneConfig) finalConfig = update.sceneConfig;
ConfigAfter(current, update) ==
  IF update.hasScene /\ Truthy(update.sceneConfig) THEN update.sceneConfig
  ELSE current

\* The generator is suspended at a yield: its consumer holds the event.
AtYield ==
  wfPc \in {"yield1a", "yield1b", "yield2a", "yield2b", "yield3a", "yield3b",
            "yield4a", "yield4b"}

\* Variant: the workflow is started without looking at referenceImages.
CallGenerateSceneFromPrompt_Unchecked ==
  /\ batchPc = "idle"
  /\ \E given \in BOOLEAN :
       /\ batchRefs' = given
       /\ batchPc' = "draining"
       /\ Pull
  /\ UNCHANGED <<finalConfig, batchError, appVars>>

\* generateSceneFromPrompt(prompt, referenceImages) is called: without
\* reference images it throws at once; with them it creates the generator
\* and for await calls next() for the first time.
CallGenerateSceneFromPrompt ==
  /\ batchPc = "idle"
  /\ \E given \in BOOLEAN :
       /\ batchRefs' = given
       /\ IF ~given THEN
            /\ batchPc' = "failed"
            /\ batchError' = "Reference images required"
            /\ UNCHANGED <<jsonVars, viewVars, builderVars, wfVars>>
          ELSE
            /\ batchPc' = "draining"
            /\ Pull
            /\ UNCHANGED batchError
  /\ UNCHANGED <<finalConfig, appVars>>

\* The loop body runs for the event just yielded and for await calls next()
\* again; when that ends the generator, the loop ends and the function
\* returns finalConfig, or throws when no event carried a scene.
BatchNext ==
  /\ batchPc = "draining"
  /\ AtYield
  /\ Pull
  /\ \E config \in {ConfigAfter(finalConfig, events[Len(events)])} :
       /\ finalConfig' = config
       /\ IF wfPc # "yield4b" THEN UNCHANGED <<batchPc, batchError>>
          ELSE IF config = NoScene THEN
            /\ batchPc' = "failed"
            /\ batchError' = "Failed to generate scene"
          ELSE
            /\ batchPc' = "returned"
            /\ UNCHANGED batchError
  /\ UNCHANGED <<batchRefs, appVars>>

\* The generator threw: for await rethrows, the function fails with the
\* same error.
BatchRethrows ==
  /\ batchPc = "draining"
  /\ wfPc = "failed"
  /\ batchPc' = "failed"
  /\ batchError' = wfError
  /\ UNCHANGED <<batchRefs, finalConfig, appVars, jsonVars, viewVars,
                 builderVars, wfVars>>

InitBatch ==
  /\ JSONIdle
  /\ ViewsIdle
  /\ BuilderIdle
  /\ WorkflowIdle
  /\ BatchIdle
  /\ AppIdle

NextBatch ==
  \/ CallGenerateSceneFromPrompt
  \/ BatchNext
  \/ BatchRethrows
  \/ DelayElapsed /\ UNCHANGED consumerVars
  \/ AnalysisResponds /\ UNCHANGED consumerVars
  \/ ModelingThrows /\ UNCHANGED consumerVars
  \/ ModelingNoText /\ UNCHANGED consumerVars
  \/ ModelingReturns /\ UNCHANGED consumerVars

SpecBatch == InitBatch /\ [][NextBatch]_vars

----------------------------------------------------------------------------
(* The App: handleGenerate drives the builder and then the workflow.       *)
(* One run of handleGenerate is followed.                                  *)

\* The last log line of each of the eight events, in the order of the
\* yield statements of generateSceneWorkflow.
LastLogs ==
  << <<"L", "o", "a", "d", "i", "n", "g", " ", "r", "e", "f", "e", "r",
       "e", "n", "c", "e", " ", "i", "m", "a", "g", "e", "s", " ", "i",
       "n", "t", "o", " ", "c", "o", "n", "t", "e", "x", "t", ".", ".",
       ".">>,
     <<"M", "a", "t", "e", "r", "i", "a", "l", " ", "c", "l", "a", "s",
       "s", "i", "f", "i", "c", "a", "t", "i", "o", "n", " ", "d", "o",
       "n", "e", ".">>,
     <<"S", "c", "u", "l", "p", "t", "i", "n", "g", " ", "p", "r", "i",
       "m", "a", "r", "y", " ", "v", "o", "l", "u", "m", "e", "s", ".",
       ".", ".">>,
     <<"S", "i", "l", "h", "o", "u", "e", "t", "t", "e", " ", "m", "a",
       "t", "c", "h", "e", "d", " ", "t", "o", " ", "r", "e", "f", "e",
       "r", "e", "n", "c", "e", ".">>,
     <<"A", "p", "p", "l", "y", "i", "n", "g", " ", "P", "B", "R", " ",
       "s", "u", "r", "f", "a", "c", "e", " ", "d", "e", "t", "a", "i",
       "l", "s", ".", ".", ".">>,
     <<"T", "e", "x", "t", "u", "r", "e", " ", "c", "o", "m", "p", "i",
       "l", "a", "t", "i", "o", "n", " ", "c", "o", "m", "p", "l", "e",
       "t", "e", ".">>,
     <<"F", "i", "n", "a", "l", "i", "z", "i", "n", "g", " ", "r", "e",
       "n", "d", "e", "r", " ", "p", "a", "s", "s", ".", ".", ".">>,
     <<"R", "e", "n", "d", "e", "r", " ", "f", "i", "n", "i", "s", "h",
       "e", "d", ".">> >>

LitComplete == <<"c", "o", "m", "p", "l", "e", "t", "e">>
LitFinished == <<"f", "i", "n", "i", "s", "h", "e", "d">>

\* s.includes(w)
Includes(s, w) == \E i \in 1..Len(s) : StartsWithAt(s, i, w)

\* logs[logs.length - 1]?.includes('complete') || ...includes('finished')
MarksEnd(lastLog) == Includes(lastLog, LitComplete) \/ Includes(lastLog, LitFinished)

\* Variant: the stages before the update's stage are left as they are.
StagesAfter_KeepsEarlierStages(prevStages, update, lastLog) ==
  [id \in StageIdSet |->
     IF id = update.stageId
     THEN [status |-> IF MarksEnd(lastLog) THEN "completed" ELSE "processing",
           logs |-> update.logs]
     ELSE prevStages[id]]

\* prevStages.map(...) for an update whose last log line is lastLog
StagesAfter(prevStages, update, lastLog) ==
  [id \in StageIdSet |->
     IF id = update.stageId
     THEN [status |-> IF MarksEnd(lastLog) THEN "completed" ELSE "processing",
           logs |-> update.logs]
     ELSE IF id < update.stageId
     THEN [prevStages[id] EXCEPT !.status = "completed"]
     ELSE prevStages[id]]

\* prev.map(s => s.id === 4 ? { ...s, status: 'completed' } : s)
FinalStagesOf(prevStages) == [prevStages EXCEPT ![4].status = "completed"]

\* The message of the error generateSingleView throws after its retries.
ImageErrorMessage(e) ==
  <<"Failed to generate", e.view, "after", DefaultRetries,
    "attempts. Last error:", e.last>>

\* The message of an error of the workflow.
WorkflowErrorMessage(m) == <<m>>

\* error.message || "Pipeline failed."
ErrorShown(message) ==
  IF message = <<"">> THEN <<"Pipeline failed.">> ELSE message

\* Answers of the image model and of the modeling request while the App
\* runs: no image or one image; a scene, an object without shapes, or a
\* text cleanAndParseJSON cannot read.
AppResponses ==
  { [candidates |-> FALSE, parts |-> <<>>],
    [candidates |-> TRUE, parts |-> <<[inline |-> TRUE, data |-> "imgA"]>>] }

AppDocs ==
  { SceneDoc(<<>>, 1, FALSE, <<>>), TObj(<<>>), TStr(<<"a", "{", "b">>) }

\* Largest number of generation runs the user starts.
MaxRuns == 2

\* What the user has typed when submitting.
Prompts == { <<>>, <<" ">>, <<"c", "a", "r">> }

\* Image requests of the back, left and right view that the App's runs
\* see answered: only the front and back view meet failures.
AppResponsesFor(v) ==
  IF v \in {"front", "back"} THEN AppResponses
  ELSE { r \in AppResponses : r.candidates }

\* A call of generateReferenceImages with fresh locals; the generator and
\* the parser of the run start afresh too.
NewCallOfGenerateReferenceImages ==
  /\ builderPc' = "front"
  /\ builderError' = NoError
  /\ viewPc' = [v \in Views |-> IF v = "front" THEN "inflight" ELSE "idle"]
  /\ attempt' = [v \in Views |-> IF v = "front" THEN 1 ELSE 0]
  /\ issued' = [v \in Views |-> IF v = "front" THEN 1 ELSE 0]
  /\ reference' = [v \in Views |-> NoImage]
  /\ waits' = [v \in Views |-> <<>>]
  /\ lastError' = [v \in Views |-> NoError]
  /\ image' = [v \in Views |-> NoImage]
  /\ viewError' = [v \in Views |-> NoError]
  /\ wfPc' = "start"
  /\ events' = <<>>
  /\ wfRequests' = <<>>
  /\ wfPending' = 0
  /\ analysisText' = ""
  /\ sceneData' = NoScene
  /\ finalSceneData' = NoScene
  /\ wfError' = "none"
  /\ doc' = TLit(LitNull)
  /\ text' = <<>>
  /\ parsed' = Pending
  /\ thrown' = NoThrow
  /\ console' = <<>>

\* handleGenerate(prompt): stages and generationState are reset and
\* generateReferenceImages is called.
HandleGenerate(prompt) ==
  /\ stages' = [id \in StageIdSet |-> [status |-> "pending", logs |-> 0]]
  /\ generationState' = [isGenerating |-> TRUE, error |-> NullError,
                         statusMessage |-> "Generating reference blueprints..."]
  /\ NewCallOfGenerateReferenceImages
  /\ appPc' = "images"
  /\ runs' = [runs EXCEPT !.started = @ + 1, !.prompt = prompt,
                          !.cleared = "no"]
  /\ UNCHANGED <<referenceImages, sceneConfig, batchVars>>

\* Variant: the input and the button stay enabled while generating.
SubmitEnabled_WhileGenerating(prompt) == Trim(prompt) # <<>>

\* ControlPanel: the input is disabled while generating and the button
\* while generating or when the trimmed prompt is empty.
SubmitEnabled(prompt) ==
  /\ ~generationState.isGenerating
  /\ Trim(prompt) # <<>>

\* No request of a run that has ended is still outstanding.
EarlierRequestsSettled ==
  appPc \in {"idle", "done", "failed"} =>
    \A v \in Views : viewPc[v] \notin {"inflight", "backoff"}

\* ControlPanel.handleSubmit: if (prompt.trim()) onGenerate(prompt).  The
\* user submits at most MaxRuns times, and again only when the requests of
\* an earlier run have all settled.
HandleSubmit(prompt) ==
  /\ SubmitEnabled(prompt)
  /\ Trim(prompt) # <<>>
  /\ runs.started < MaxRuns
  /\ EarlierRequestsSettled
  /\ HandleGenerate(prompt)

\* handleClear: the Clear button is never disabled.
HandleClear ==
  /\ sceneConfig' = INITIAL_SCENE
  /\ referenceImages' = NullReferenceImages
  /\ stages' = INITIAL_STAGES
  /\ runs' = [runs EXCEPT !.cleared = IF generationState.isGenerating
                                       THEN "running" ELSE "idle"]
  /\ UNCHANGED <<appPc, generationState, batchVars, jsonVars, viewVars,
                 builderVars, wfVars>>

\* generateReferenceImages has returned: the set is published, the
\* generator is created and for await calls next() for the first time.
AppImagesReturned ==
  /\ appPc = "images"
  /\ builderPc = "done"
  /\ referenceImages' = PublishedImages(ReferenceImages)
  /\ Pull
  /\ appPc' = "workflow"
  /\ UNCHANGED <<generationState, sceneConfig, stages, runs, batchVars>>

\* The loop body runs for the event just yielded and for await calls next()
\* again; when that ends the generator, stage 4 is marked completed and the
\* run ends with 'Done!'.
AppNext ==
  /\ appPc = "workflow"
  /\ AtYield
  /\ Pull
  /\ \E update \in {events[Len(events)]} :
       \E updated \in {StagesAfter(stages, update, LastLogs[Len(events)])} :
         /\ sceneConfig' = ConfigAfter(sceneConfig, update)
         /\ IF wfPc # "yield4b" THEN
              /\ stages' = updated
              /\ UNCHANGED <<appPc, generationState, runs>>
            ELSE
              /\ stages' = FinalStagesOf(updated)
              /\ generationState' = [generationState EXCEPT
                                       !.isGenerating = FALSE,
                                       !.statusMessage = "Done!"]
              /\ appPc' = "done"
              /\ runs' = [runs EXCEPT !.ended = @ + 1]
  /\ UNCHANGED <<referenceImages, batchVars>>

\* Variant: the catch block also puts the published state back.
AppCatches_RollsBack ==
  /\ \/ appPc = "images" /\ builderPc = "failed"
     \/ appPc = "workflow" /\ wfPc = "failed"
  /\ \E message \in {IF appPc = "images" THEN ImageErrorMessage(builderError)
                     ELSE WorkflowErrorMessage(wfError)} :
       generationState' = [isGenerating |-> FALSE, error |-> ErrorShown(message),
                           statusMessage |-> ""]
  /\ appPc' = "failed"
  /\ runs' = [runs EXCEPT !.ended = @ + 1]
  /\ referenceImages' = NullReferenceImages
  /\ stages' = INITIAL_STAGES
  /\ UNCHANGED <<sceneConfig, batchVars, jsonVars, viewVars,
                 builderVars, wfVars>>

\* Variant: the catch block reports the error but leaves isGenerating set.
AppCatches_StaysGenerating ==
  /\ \/ appPc = "images" /\ builderPc = "failed"
     \/ appPc = "workflow" /\ wfPc = "failed"
  /\ \E message \in {IF appPc = "images" THEN ImageErrorMessage(builderError)
                     ELSE WorkflowErrorMessage(wfError)} :
       generationState' = [isGenerating |-> TRUE, error |-> ErrorShown(message),
                           statusMessage |-> ""]
  /\ appPc' = "failed"
  /\ runs' = [runs EXCEPT !.ended = @ + 1]
  /\ UNCHANGED <<referenceImages, sceneConfig, stages, batchVars, jsonVars,
                 viewVars, builderVars, wfVars>>

\* The awaited call or the generator threw: the catch block ends the run
\* with the error's message.
AppCatches ==
  /\ \/ appPc = "images" /\ builderPc = "failed"
     \/ appPc = "workflow" /\ wfPc = "failed"
  /\ \E message \in {IF appPc = "images" THEN ImageErrorMessage(builderError)
                     ELSE WorkflowErrorMessage(wfError)} :
       generationState' = [isGenerating |-> FALSE, error |-> ErrorShown(message),
                           statusMessage |-> ""]
  /\ appPc' = "failed"
  /\ runs' = [runs EXCEPT !.ended = @ + 1]
  /\ UNCHANGED <<referenceImages, sceneConfig, stages, batchVars, jsonVars,
                 viewVars, builderVars, wfVars>>

InitApp ==
  /\ JSONIdle
  /\ ViewsIdle
  /\ BuilderIdle
  /\ WorkflowIdle
  /\ BatchIdle
  /\ AppIdle

NextApp ==
  \/ \E prompt \in Prompts : HandleSubmit(prompt)
  \/ HandleClear
  \/ AppImagesReturned
  \/ AppNext
  \/ AppCatches
  \/ \E v \in Views : RespondWith(v, AppResponsesFor(v)) /\ UNCHANGED consumerVars
  \/ \E v \in Views : BackoffElapsed(v) /\ UNCHANGED consumerVars
  \/ StartConditionedViews /\ UNCHANGED consumerVars
  \/ DelayElapsed /\ UNCHANGED consumerVars
  \/ AnalysisResponds /\ UNCHANGED consumerVars
  \/ ModelingThrows /\ UNCHANGED consumerVars
  \/ ModelingNoText /\ UNCHANGED consumerVars
  \/ ModelingReturnsOneOf(AppDocs) /\ UNCHANGED consumerVars

SpecApp == InitApp /\ [][NextApp]_vars

\* The App when every request settles, every timer fires and every
\* continuation of handleGenerate runs; the user is under no obligation.
FairApp ==
  /\ SpecApp
  /\ \A v \in Views :
       /\ WF_vars(RespondWith(v, AppResponsesFor(v)) /\ UNCHANGED consumerVars)
       /\ WF_vars(BackoffElapsed(v) /\ UNCHANGED consumerVars)
  /\ WF_vars(StartConditionedViews /\ UNCHANGED consumerVars)
  /\ WF_vars(DelayElapsed /\ UNCHANGED consumerVars)
  /\ WF_vars(AnalysisResponds /\ UNCHANGED consumerVars)
  /\ WF_vars((ModelingThrows \/ ModelingNoText \/ ModelingReturnsOneOf(AppDocs))
               /\ UNCHANGED consumerVars)
  /\ WF_vars(AppImagesReturned)
  /\ WF_vars(AppNext)
  /\ WF_vars(AppCatches)

----------------------------------------------------------------------------
(* Properties of the reference image set builder (SpecImages).             *)

\* C1: a conditioned request (back, left or right) is issued only after the
\* front view has settled successfully, and every conditioned call carries
\* the image the front view returned as its reference.
C1_ConditionedAfterFront ==
  \A v \in Conditioned :
    issued[v] > 0 =>
      /\ viewPc["front"] = "done"
      /\ image["front"] \in Images
      /\ reference[v] = image["front"]

\* A conditioned view has returned an image other than the front image it
\* was conditioned on.
C1_Witness ==
  /\ viewPc["back"] = "done"
  /\ image["back"] # image["front"]
  /\ reference["back"] = image["front"]
  /\ issued["left"] > 1

\* The first n waits of a schedule that starts at 1000 ms and doubles.
DoublingWaits(n) == [i \in 1..n |-> 1000 * 2 ^ (i - 1)]

\* C2: a call of generateSingleView whose attempts all fail has issued
\* exactly 3 requests and has waited 1000 ms and then 2000 ms between them,
\* with no wait after the final attempt; while it runs it has issued at most
\* 3 requests and has waited once after each failed attempt but the last.
C2_ThreeRequestsDoublingBackoff ==
  \A v \in Views :
    /\ issued[v] <= 3
    /\ viewPc[v] = "failed" =>
         /\ issued[v] = 3
         /\ waits[v] = <<1000, 2000>>
         /\ viewError[v].kind = "exhausted"
    /\ viewPc[v] = "inflight" => waits[v] = DoublingWaits(issued[v] - 1)
    /\ viewPc[v] = "backoff" => issued[v] < 3 /\ waits[v] = DoublingWaits(issued[v])

\* The front call has failed and its last attempt reported no image data.
C2_Witness ==
  /\ viewPc["front"] = "failed"
  /\ viewError["front"] = ExhaustedError(ViewLabel("front"),
                                         NoImageDataError(ViewLabel("front")))
  /\ issued["front"] = 3
  /\ waits["front"] = <<1000, 2000>>

----------------------------------------------------------------------------
(* The workflow with a consumer that keeps pulling (for await) and timers  *)
(* that fire.                                                               *)

FairWorkflow ==
  /\ SpecWorkflow
  /\ WF_vars(Pull /\ UNCHANGED consumerVars)
  /\ WF_vars(DelayElapsed /\ UNCHANGED consumerVars)

----------------------------------------------------------------------------
(* Properties of the scene workflow (SpecWorkflow, FairWorkflow).          *)

StageIds == [i \in 1..Len(events) |-> events[i].stageId]

ExpectedStageIds == <<1, 1, 2, 2, 3, 3, 4, 4>>

IsPrefix(a, b) == Len(a) <= Len(b) /\ a = SubSeq(b, 1, Len(a))

Ended == wfPc \in {"done", "failed"}

AnalysisReturned == Len(wfRequests) >= 1 /\ wfRequests[1].outcome = "returned"
AnalysisThrew == Len(wfRequests) >= 1 /\ wfRequests[1].outcome = "threw"
ModelingIssued == Len(wfRequests) >= 2 /\ wfRequests[2].kind = "modeling"

\* The eight events of a completed run: stage ids 1,1,2,2,3,3,4,4, the
\* first stage-2 event without a scene, the second with the parsed scene.
EightEvents ==
  /\ wfPc = "done"
  /\ StageIds = ExpectedStageIds
  /\ ~events[3].hasScene
  /\ events[4].hasScene
  /\ events[4].sceneConfig = parsed.val

\* C3: whenever both requests return and the modeling text parses, the run
\* ends after exactly eight events with stage ids 1,1,2,2,3,3,4,4, the
\* first stage-2 event without a scene and the second with the parsed scene.
C3_EightEventsWheneverParsed ==
  (Ended /\ AnalysisReturned /\ parsed.ok) => EightEvents

\* What holds of the event sequence: the stage ids emitted so far are always
\* a prefix of 1,1,2,2,3,3,4,4, and the run ends after the eight events when
\* the parsed value is an object with a non-null shapes member.
EightEventsWhenShapesReadable ==
  /\ IsPrefix(StageIds, ExpectedStageIds)
  /\ (Ended /\ AnalysisReturned /\ parsed.ok /\ ShapesReadable(parsed.val))
       => EightEvents

\* C4 as stated: every stage-3 event carries the scene of the second
\* stage-2 event.
C4_BothStage3EventsCarryScene ==
  \A i \in 1..Len(events) :
    events[i].stageId = 3 =>
      events[i].hasScene /\ events[i].sceneConfig = events[4].sceneConfig

\* C4: the second stage-3 event carries the same scene as the second
\* stage-2 event; the first stage-3 event carries no scene.
C4_SecondStage3EventCarriesScene ==
  /\ Len(events) >= 5 => events[5].stageId = 3 /\ ~events[5].hasScene
  /\ Len(events) >= 6 =>
       /\ events[6].stageId = 3
       /\ events[6].hasScene
       /\ events[4].stageId = 2
       /\ events[4].hasScene
       /\ events[6].sceneConfig = events[4].sceneConfig

\* Both stage-3 events have been emitted for a scene with shapes.
C4_Witness ==
  /\ Len(events) >= 6
  /\ events[6].hasScene
  /\ IsArr(events[6].sceneConfig.obj[KShapes])
  /\ Len(events[6].sceneConfig.obj[KShapes].arr) = MaxShapes

\* C5: the scene of the closing stage-4 event has the members of the
\* stage-2 scene with the same values (shapes, backgroundColor and
\* ambientLightColor among them), except ambientLightIntensity, which is 0.7.
C5_FinalSceneIsStage2SceneWithIntensity ==
  Len(events) = 8 =>
    LET first == events[4].sceneConfig.obj
        final == events[8].sceneConfig.obj
    IN  /\ events[8].stageId = 4
        /\ events[8].hasScene
        /\ DOMAIN final = DOMAIN first \cup {KAmbientLightIntensity}
        /\ \A k \in DOMAIN first \ {KAmbientLightIntensity} : final[k] = first[k]
        /\ final[KAmbientLightIntensity] = JNum(7, 1)

\* A run has completed on a scene that has shapes, both colours and an
\* intensity of 0.5.
C5_Witness ==
  /\ Len(events) = 8
  /\ {KBackgroundColor, KAmbientLightColor} \subseteq DOMAIN events[4].sceneConfig.obj
  /\ events[4].sceneConfig.obj[KAmbientLightIntensity] = JNum(5, 1)
  /\ Len(events[8].sceneConfig.obj[KShapes].arr) > 0

\* scene.ambientLightIntensity, Undefined when the member is absent.
Undefined == [undefined |-> TRUE]
IntensityOf(scene) ==
  IF KAmbientLightIntensity \in DOMAIN scene.obj
  THEN scene.obj[KAmbientLightIntensity] ELSE Undefined

C7_ModelingFailureEndsWorkflow ==
  /\ (ModelingIssued /\ wfRequests[2].outcome = "threw") => wfPc = "failed"
  /\ parsed.via = "none" => wfPc = "failed"
  /\ wfPc = "failed" =>
       \A i \in 1..Len(events) : ~events[i].hasScene /\ events[i].stageId < 3
  /\ Cardinality({i \in 1..Len(wfRequests) : wfRequests[i].kind = "modeling"}) <= 1

\* The workflow has failed on a modeling text that no repair could parse.
C7_Witness ==
  /\ wfPc = "failed"
  /\ parsed.via = "none"
  /\ wfError = ParseFailureMessage
  /\ Len(events) = 3

\* C8: a failure of the analysis request is absorbed: the analysis text is
\* the fallback string, the second stage-1 event is emitted, the workflow
\* fails only after the modeling request was issued, the modeling request
\* carries the fallback text, and the workflow goes on to issue it.
C8_AnalysisFailureAbsorbed ==
  /\ [](AnalysisThrew =>
          /\ analysisText = FallbackAnalysis
          /\ Len(events) >= 2
          /\ events[2] = Event(1, 4)
          /\ wfPc = "failed" => ModelingIssued
          /\ ModelingIssued => wfRequests[2].analysis = FallbackAnalysis)
  /\ (AnalysisThrew ~> ModelingIssued)

\* A run has completed although its analysis request threw.
C8_Witness ==
  /\ AnalysisThrew
  /\ ModelingIssued
  /\ wfRequests[2].analysis = FallbackAnalysis
  /\ wfPc = "done"

----------------------------------------------------------------------------
(* Properties of the JSON repair utility (SpecJSON).                       *)

\* C9 as stated: for every well-formed JSON text, cleanAndParseJSON returns
\* the value that parsing the text directly returns.
C9_WellFormedTextParsesAsIs ==
  (parsed.via # "pending" /\ ParseJSON(text).ok) =>
    (parsed.ok /\ parsed.val = ParseJSON(text).val)

\* The members of a scene document and its shapes.
ShapesIndexOf(d) == CHOOSE p \in 1..Len(d.tobj) : d.tobj[p][1] = KShapes
ShapesOf(d) == d.tobj[ShapesIndexOf(d)][2].tarr

\* The scene document d without what follows its j-th shape.
UpToShape(d, j) ==
  TObj(SubSeq(d.tobj, 1, ShapesIndexOf(d) - 1)
         \o <<<<KShapes, TArr(SubSeq(ShapesOf(d), 1, j))>>>>)

\* The rendering of d cut right after the "}" of its j-th shape.
CutAfterShape(d, sp, j) ==
  LET whole == Render(UpToShape(d, j), sp)
  IN  SubSeq(whole, 1, Len(whole) - 2)

ExampleText ==
  <<"{", "\"", "s", "h", "a", "p", "e", "s", "\"", ":", "[",
    "{", "\"", "i", "d", "\"", ":", "\"", "x", "\"", "}">>

ExampleValue ==
  JObj(PutMember(EmptyMembers, KShapes,
                 JArr(<<JObj(PutMember(EmptyMembers, KId, JStr(<<"x">>)))>>)))

\* C10: a scene text truncated right after a complete shape object is
\* recovered by the truncation repair: the result is the scene up to that
\* shape, its shapes array and its object closed with one "]" and then one
\* "}"; the text {"shapes":[{"id":"x"} yields {"shapes":[{"id":"x"}]}.
C10_TruncatedSceneIsClosed ==
  parsed.via # "pending" =>
    /\ text = ExampleText =>
         parsed = [ok |-> TRUE, val |-> ExampleValue, via |-> "truncation"]
    /\ doc \in SceneDocs =>
         \A j \in 1..Len(ShapesOf(doc)) : \A sp \in Spacings :
           text = CutAfterShape(doc, sp, j) =>
             parsed = [ok |-> TRUE, val |-> ValueOf(UpToShape(doc, j)),
                       via |-> "truncation"]

\* A scene with colours and positioned shapes, cut after its last shape,
\* has been repaired.
C10_Witness ==
  /\ parsed.via = "truncation"
  /\ doc \in SceneDocs
  /\ Len(ShapesOf(doc)) = MaxShapes
  /\ Len(doc.tobj) > 2
  /\ text = CutAfterShape(doc, <<" ">>, MaxShapes)
  /\ KPosition \in DOMAIN parsed.val.obj[KShapes].arr[MaxShapes].obj

IsObjectDoc(d) == DOMAIN d = {"tobj"}

AdjacentValue == JObj(PutMember(EmptyMembers, <<"b">>, JNum(2, 0)))

\* The call has returned the value v.
Returned(v) == parsed.ok /\ parsed.val = v

\* C11: a text that is valid JSON except for one trailing comma before a
\* closing "}" or "]" is parsed to the value the text denotes without that
\* comma.
C11_TrailingCommaRemoved ==
  parsed.via # "pending" =>
    \A sp \in Spacings :
      \A n \in ClosersOf(Render(doc, sp)) :
        text = Damaged(Render(doc, sp), [kind |-> "comma", n |-> n])
          => Returned(ValueOf(doc))

\* C12: when the comma between two object literals of an array is missing,
\* both objects are returned as consecutive elements in their order; two
\* object literals adjacent at top level give the two-element array or a
\* failure, never one of the two objects.
C12_MissingCommaInserted ==
  parsed.via # "pending" =>
    \A sp \in Spacings :
      /\ \A n \in ObjectSeparatorsOf(Render(doc, sp)) :
           text = Damaged(Render(doc, sp), [kind |-> "nocomma", n |-> n])
             => Returned(ValueOf(doc))
      /\ (/\ IsObjectDoc(doc)
          /\ text = Render(doc, sp) \o Adjacent)
           => (~parsed.ok \/ parsed.val = JArr(<<ValueOf(doc), AdjacentValue>>))

\* C13: the strategies are tried in the order cleaning, direct parse,
\* syntactic repair, truncation repair: the value of the direct parse is
\* returned whenever it succeeds, the value of a later strategy only when
\* every earlier one failed, and the call fails only when all have failed.
C13_StrategiesInOrder ==
  parsed.via # "pending" =>
    LET cleanText == CleanText(text)
        direct == ParseJSON(cleanText)
        repairedText == RepairSyntax(cleanText)
        repaired == ParseJSON(repairedText)
        closed == IF LastIndexOf(repairedText, "}") # 0
                  THEN ParseJSON(RepairTruncation(repairedText))
                  ELSE [ok |-> FALSE, val |-> JNull]
    IN  /\ parsed.via = "direct" <=> direct.ok
        /\ parsed.via = "syntax" <=> ~direct.ok /\ repaired.ok
        /\ parsed.via = "truncation" <=> ~direct.ok /\ ~repaired.ok /\ closed.ok
        /\ parsed.via = "none" <=> ~direct.ok /\ ~repaired.ok /\ ~closed.ok
        /\ parsed.ok <=> parsed.via # "none"
        /\ parsed.via = "direct" => parsed.val = direct.val
        /\ parsed.via = "syntax" => parsed.val = repaired.val
        /\ parsed.via = "truncation" => parsed.val = closed.val

\* A text with a trailing comma and a missing closer was parsed only by the
\* last strategy.
C13_Witness ==
  /\ parsed.via = "truncation"
  /\ ~ParseJSON(RepairSyntax(CleanText(text))).ok
  /\ RepairSyntax(CleanText(text)) # CleanText(text)

----------------------------------------------------------------------------
(* Errors of the JSON repair utility in the workflow (SpecWorkflow).       *)

\* C14 as stated: the error raised when every strategy fails carries the
\* raw text that was passed in.
C14_ErrorCarriesRawText ==
  parsed.via = "none" => \E i \in 1..Len(thrown.data) : thrown.data[i] = text

\* C14: when every strategy fails, the raw text that was passed in is
\* written to the console and the error raised has the fixed message and
\* carries no text; the workflow fails with that error.
C14_RawTextLoggedNotCarried ==
  parsed.via = "none" =>
    /\ thrown = ParseError
    /\ thrown.data = <<>>
    /\ Len(console) > 0
    /\ console[Len(console)].level = "error"
    /\ console[Len(console)].arg = text
    /\ wfPc = "failed"
    /\ wfError = thrown.message

\* The workflow has failed on an answer that the cleaning step changed and
\* no strategy could parse.
C14_Witness ==
  /\ parsed.via = "none"
  /\ wfPc = "failed"
  /\ CleanText(text) # text
  /\ console[Len(console)].arg = text

----------------------------------------------------------------------------
(* Errors and completion of the image client and builder (SpecImages).     *)

\* C15: the error of a call that has exhausted its retries names the view
\* label of the call and wraps the message of the error caught in the last
\* attempt, the third.
C15_ExhaustedErrorWrapsLastError ==
  \A v \in Views :
    viewPc[v] = "failed" =>
      /\ viewError[v].kind = "exhausted"
      /\ viewError[v].view = ViewLabel(v)
      /\ lastError[v].attempt = 3
      /\ viewError[v].last = lastError[v].kind

\* The back call has failed and its last attempt threw a network error.
C15_Witness ==
  /\ viewPc["back"] = "failed"
  /\ viewError["back"].view = "Back view"
  /\ viewError["back"].last = "network"
  /\ lastError["back"].attempt = 3

Outstanding(v) == viewPc[v] \in {"inflight", "backoff"}

\* C16 as stated: generateReferenceImages never completes, by returning or
\* by failing, while a conditioned call of the run is still outstanding.
C16_NeverCompletesWhileOutstanding ==
  builderPc \in {"done", "failed"} => \A v \in Conditioned : ~Outstanding(v)

\* C16: generateReferenceImages returns only when the front call and all
\* three conditioned calls have returned an image, whatever order they
\* complete in; it fails as soon as one call has failed, with that call's
\* error, also while other conditioned calls are still outstanding.
C16_ReturnsAfterAllThree ==
  /\ builderPc = "done" =>
       \A v \in Views : viewPc[v] = "done" /\ ReferenceImages[v] \in Images
  /\ builderPc = "failed" =>
       \E v \in Views : viewPc[v] = "failed" /\ builderError = viewError[v]

\* The builder has returned after the conditioned calls needed 3, 1 and 2
\* attempts.
C16_Witness ==
  /\ builderPc = "done"
  /\ issued["back"] = 3
  /\ issued["left"] = 1
  /\ issued["right"] = 2

----------------------------------------------------------------------------
(* Sequencing of the scene workflow (SpecWorkflow).                        *)

PendingRequests == {i \in 1..Len(wfRequests) : wfRequests[i].outcome = "pending"}

\* C17: at most one request of the workflow is outstanding at any time; the
\* second stage-1 event is emitted only after the analysis request has
\* settled and the second stage-2 event only after the modeling request has
\* returned; the stage ids of the emitted events never decrease.
C17_SequentialRequestsAndEvents ==
  /\ wfPending <= 1
  /\ Cardinality(PendingRequests) = wfPending
  /\ Len(events) >= 2 =>
       wfRequests[1].kind = "analysis" /\ wfRequests[1].outcome # "pending"
  /\ Len(events) >= 4 =>
       wfRequests[2].kind = "modeling" /\ wfRequests[2].outcome = "returned"
  /\ \A i, j \in 1..Len(events) : i < j => events[i].stageId <= events[j].stageId

\* The modeling request is outstanding after three events.
C17_Witness ==
  /\ wfPc = "modeling"
  /\ wfPending = 1
  /\ PendingRequests = {2}
  /\ Len(events) = 3

----------------------------------------------------------------------------
(* Properties of the batch form (SpecBatch).                               *)

\* C18: generateSceneFromPrompt called without reference images fails at
\* once with the precondition error: no request is issued, no event is
\* produced, the generator is never started and nothing is retried.
C18_MissingReferenceImagesFailFast ==
  (batchPc # "idle" /\ ~batchRefs) =>
    /\ batchPc = "failed"
    /\ batchError = "Reference images required"
    /\ wfPc = "start"
    /\ wfRequests = <<>>
    /\ wfPending = 0
    /\ events = <<>>

\* The call without reference images has failed.
C18_Witness ==
  /\ batchPc = "failed"
  /\ ~batchRefs
  /\ batchError = "Reference images required"

\* C19: generateSceneFromPrompt returns only after the workflow has ended
\* with its eight events, and it returns the scene of the last event that
\* carried one, the closing stage-4 scene with ambient intensity 0.7; when
\* the workflow fails it fails with the same error.
C19_BatchReturnsFinalScene ==
  /\ batchPc = "returned" =>
       /\ wfPc = "done"
       /\ Len(events) = 8
       /\ finalConfig = events[8].sceneConfig
       /\ finalConfig = FinalSceneOf(events[4].sceneConfig)
       /\ finalConfig.obj[KAmbientLightIntensity] = JNum(7, 1)
  /\ (batchPc = "failed" /\ batchRefs) => wfPc = "failed" /\ batchError = wfError
  /\ (wfPc = "failed" /\ batchPc # "draining") => batchPc = "failed"

\* The batch call has returned a scene whose preview had intensity 0.5.
C19_Witness ==
  /\ batchPc = "returned"
  /\ IntensityOf(events[4].sceneConfig) = JNum(5, 1)
  /\ finalConfig # events[4].sceneConfig
  /\ Len(finalConfig.obj[KShapes].arr) = MaxShapes

----------------------------------------------------------------------------
(* Properties of the App (SpecApp).                                        *)

\* The message of the error that ended the run.
FailureMessage ==
  IF wfPc = "failed" THEN WorkflowErrorMessage(wfError)
  ELSE ImageErrorMessage(builderError)

\* C20: an error from reference-image generation or from the workflow ends
\* the run of handleGenerate with isGenerating = false and that error's
\* message as the one error shown; the step that reports it leaves the
\* published reference images, scene and stages as they are.
C20_ErrorEndsRunWithoutRollback ==
  /\ [](appPc = "failed" =>
          /\ generationState = [isGenerating |-> FALSE,
                                error |-> FailureMessage,
                                statusMessage |-> ""]
          /\ generationState.error # NullError)
  /\ [][(appPc # "failed" /\ appPc' = "failed") =>
          UNCHANGED <<referenceImages, sceneConfig, stages>>]_vars
  /\ [][((builderPc # "failed" /\ builderPc' = "failed")
            \/ (wfPc # "failed" /\ wfPc' = "failed")) =>
          UNCHANGED <<referenceImages, sceneConfig, stages>>]_vars

\* The modeling request failed after the reference images and the logs of
\* stages 1 and 2 had been published: the run has ended and they remain.
C20_Witness ==
  /\ appPc = "failed"
  /\ wfPc = "failed"
  /\ ~generationState.isGenerating
  /\ ~referenceImages.isNull
  /\ referenceImages.views = image
  /\ stages[1] = [status |-> "completed", logs |-> 4]
  /\ stages[2] = [status |-> "processing", logs |-> 4]

----------------------------------------------------------------------------
(* Retry discipline of the image client and request budget of the builder  *)
(* (SpecImages).                                                           *)

FailureKinds == {"network", "no image data"}

\* C23: a failed attempt of generateSingleView is followed by the same
\* steps whether the request threw or the response had no image data: the
\* backoff wait after attempts 1 and 2, the exhausted error after attempt
\* 3; a request is issued only at the start of the call or when a backoff
\* has elapsed, never while one is in flight, and no call issues more than
\* 3 requests.
C23_FailedAttemptsRetriedAlikeInSequence ==
  /\ [](\A v \in Views :
          /\ issued[v] <= 3
          /\ viewPc[v] \in {"inflight", "backoff"} =>
               /\ attempt[v] = issued[v]
               /\ issued[v] > 1 => lastError[v].kind \in FailureKinds)
  /\ [][\A v \in Views :
          /\ (viewPc[v] = "inflight" /\ viewPc'[v] \notin {"inflight", "done"}) =>
               /\ lastError'[v].kind \in FailureKinds
               /\ lastError'[v].attempt = issued[v]
               /\ issued'[v] = issued[v]
               /\ viewPc'[v] = IF issued[v] < 3 THEN "backoff" ELSE "failed"
               /\ waits'[v] = IF issued[v] < 3
                              THEN Append(waits[v], WaitTime(issued[v]))
                              ELSE waits[v]
          /\ issued'[v] # issued[v] =>
               /\ viewPc[v] \in {"idle", "backoff"}
               /\ viewPc'[v] = "inflight"
               /\ issued'[v] = issued[v] + 1]_vars

\* Two calls wait for their third attempt, one after a network error and
\* one after a response without image data.
C23_Witness ==
  /\ viewPc["back"] = "backoff"
  /\ viewPc["left"] = "backoff"
  /\ lastError["back"].kind = "network"
  /\ lastError["left"].kind = "no image data"
  /\ issued["back"] = 2
  /\ issued["left"] = 2
  /\ waits["back"] = waits["left"]

\* The first part of a response that has inlineData with data.
FirstPayloadIndex(response) ==
  CHOOSE i \in 1..Len(response.parts) :
    /\ response.parts[i] \in [inline : {TRUE}, data : Images]
    /\ \A j \in 1..(i - 1) : response.parts[j] \notin [inline : {TRUE}, data : Images]

HasPayload(response) ==
  /\ response.candidates
  /\ \E i \in 1..Len(response.parts) :
       response.parts[i] \in [inline : {TRUE}, data : Images]

\* C24: a call that has returned holds an image payload, the first one of
\* a response that has one, and has issued one request per attempt and
\* waited once per failed attempt (0, 1 or 2); once returned it issues no
\* further request and waits no more.
C24_ReturnsFirstPayloadAndStops ==
  /\ [](/\ \A response \in Responses :
             ImageOf(response) =
               IF HasPayload(response)
               THEN response.parts[FirstPayloadIndex(response)].data
               ELSE NoImage
        /\ \A v \in Views :
             viewPc[v] = "done" =>
               /\ image[v] \in Images
               /\ issued[v] \in 1..3
               /\ waits[v] = DoublingWaits(issued[v] - 1))
  /\ [][\A v \in Views :
          /\ (viewPc[v] = "inflight" /\ viewPc'[v] = "done") =>
               /\ issued'[v] = issued[v]
               /\ waits'[v] = waits[v]
          /\ viewPc[v] = "done" =>
               /\ viewPc'[v] = "done"
               /\ issued'[v] = issued[v]
               /\ waits'[v] = waits[v]
               /\ image'[v] = image[v]]_vars

\* Three calls have returned an image, after 0, 1 and 2 failed attempts.
C24_Witness ==
  /\ viewPc["front"] = "done"
  /\ viewPc["back"] = "done"
  /\ viewPc["left"] = "done"
  /\ issued["front"] = 1
  /\ issued["back"] = 2
  /\ issued["left"] = 3
  /\ image["left"] = "imgB"

RECURSIVE SumIssued(_)
SumIssued(vs) ==
  IF vs = {} THEN 0
  ELSE LET v == CHOOSE w \in vs : TRUE IN issued[v] + SumIssued(vs \ {v})

\* C25: when the front call has exhausted its retries, the builder has
\* failed with that call's error after exactly 3 requests and no request
\* for the back, left or right view is ever issued; a run of the builder
\* issues at most 12 requests, at most 3 of them in flight at a time.
C25_FrontFailureStopsBuilder ==
  /\ viewPc["front"] = "failed" =>
       /\ builderPc = "failed"
       /\ builderError = viewError["front"]
       /\ builderError.kind = "exhausted"
       /\ SumIssued(Views) = 3
       /\ \A v \in Conditioned : viewPc[v] = "idle" /\ issued[v] = 0
  /\ SumIssued(Views) <= 12
  /\ Cardinality({v \in Views : viewPc[v] = "inflight"}) <= 3

\* The front call has exhausted its retries and the builder has failed.
C25_Witness ==
  /\ viewPc["front"] = "failed"
  /\ builderPc = "failed"
  /\ issued = [v \in Views |-> IF v = "front" THEN 3 ELSE 0]

----------------------------------------------------------------------------
(* Requests and snapshots of the scene workflow (SpecWorkflow).            *)

RequestKinds == [i \in 1..Len(wfRequests) |-> wfRequests[i].kind]

\* C26: a run of the workflow that has ended normally has issued exactly
\* two requests, the analysis request and then the modeling request; from
\* the second stage-2 event on no request is issued or pending, and none
\* is issued before the consumer has asked for the second event.
C26_TwoRequestsNoneInLaterStages ==
  /\ IsPrefix(RequestKinds, <<"analysis", "modeling">>)
  /\ wfPc \in {"start", "yield1a", "delay800"} => wfRequests = <<>>
  /\ wfPc \in {"yield2b", "delay800b", "yield3a", "delay1200", "yield3b",
               "delay800c", "yield4a", "delay1000", "yield4b", "done"} =>
       /\ RequestKinds = <<"analysis", "modeling">>
       /\ wfPending = 0
       /\ wfRequests[2].outcome = "returned"

\* A run has ended normally although its analysis request threw.
C26_Witness ==
  /\ wfPc = "done"
  /\ Len(events) = 8
  /\ Len(wfRequests) = 2
  /\ wfRequests[1].outcome = "threw"

\* C30: once the final scene has been derived, sceneData, the object the
\* second stage-2 and stage-3 events carry, is still the value
\* cleanAndParseJSON returned, with the intensity the model gave, and the
\* final scene has the same shapes.
C30_FinalSceneLeavesSnapshotAlone ==
  wfPc \in {"delay1000", "yield4b", "done"} =>
    /\ sceneData = parsed.val
    /\ sceneData = events[4].sceneConfig
    /\ sceneData = events[6].sceneConfig
    /\ finalSceneData.obj[KShapes] = sceneData.obj[KShapes]
    /\ wfPc # "delay1000" =>
         events[8].sceneConfig.obj[KShapes] = events[4].sceneConfig.obj[KShapes]

\* After the closing event the snapshot has intensity 0.5 and the final
\* scene 0.7; both have the same non-empty shapes.
C30_Witness ==
  /\ wfPc = "done"
  /\ IntensityOf(sceneData) = JNum(5, 1)
  /\ IntensityOf(events[8].sceneConfig) = JNum(7, 1)
  /\ sceneData.obj[KShapes] = events[8].sceneConfig.obj[KShapes]
  /\ sceneData.obj[KShapes] # JArr(<<>>)

----------------------------------------------------------------------------
(* Runs of the App (SpecApp, FairApp).                                     *)

RunEndedWell ==
  /\ ~generationState.isGenerating
  /\ generationState.statusMessage = "Done!"
  /\ generationState.error = NullError

RunEndedWithError ==
  /\ ~generationState.isGenerating
  /\ generationState.error # NullError

\* C21: when every request settles, a run that handleGenerate has started
\* leads to isGenerating = false, with 'Done!' and no error or with an
\* error message; and whenever a run has ended the App shows one of the
\* two.
C21_EveryRunEnds ==
  /\ generationState.isGenerating ~> (RunEndedWell \/ RunEndedWithError)
  /\ [](runs.started > 0 =>
          \/ generationState.isGenerating
          \/ RunEndedWell
          \/ RunEndedWithError)

\* The second run has ended with the error of the back view's call after
\* the first had ended well.
C21_Witness ==
  /\ runs.started = 2
  /\ runs.ended = 2
  /\ RunEndedWithError
  /\ builderError.view = "Back view"
  /\ sceneConfig # INITIAL_SCENE

\* What handleClear leaves on display.
Cleared ==
  /\ sceneConfig = INITIAL_SCENE
  /\ referenceImages = NullReferenceImages
  /\ stages = INITIAL_STAGES

\* C22 as stated: from a press of Clear until the next generation is
\* started, the scene is the initial scene, the reference images are null
\* and the four stages are pending without logs, also when a run was in
\* flight at the press.
C22_ClearedUntilNextGeneration ==
  runs.cleared # "no" => Cleared

\* What holds: a press of Clear while no run is in flight leaves the
\* cleared display until the next generation is started.
ClearedWhenNoRunInFlight ==
  runs.cleared = "idle" => Cleared

----------------------------------------------------------------------------
(* Stages and display of the App (SpecApp).                                *)

StatusOf(ss) == [id \in StageIdSet |-> ss[id].status]

AllCompleted == [id \in StageIdSet |-> "completed"]

\* C27: the step in which handleGenerate completes without error leaves
\* all four stages completed, isGenerating false, no error, 'Done!' and
\* the scene of the closing stage-4 event on display; it stays so unless
\* Clear is pressed.
C27_CompletedRunShowsFinalScene ==
  /\ [][(appPc # "done" /\ appPc' = "done") =>
          /\ StatusOf(stages') = AllCompleted
          /\ generationState' = [isGenerating |-> FALSE, error |-> NullError,
                                 statusMessage |-> "Done!"]
          /\ Len(events') = 8
          /\ sceneConfig' = events'[8].sceneConfig
          /\ IntensityOf(sceneConfig') = JNum(7, 1)]_vars
  /\ []((appPc = "done" /\ runs.cleared \in {"no", "running"}) =>
          /\ StatusOf(stages) = AllCompleted
          /\ RunEndedWell
          /\ sceneConfig = events[8].sceneConfig)

\* A run has completed; Clear was pressed while it was in flight.
C27_Witness ==
  /\ appPc = "done"
  /\ runs.cleared = "running"
  /\ StatusOf(stages) = AllCompleted
  /\ sceneConfig = events[8].sceneConfig
  /\ sceneConfig # events[4].sceneConfig
  /\ ~generationState.isGenerating

Processing(ss) == {id \in StageIdSet : ss[id].status = "processing"}

\* The step applies a workflow event to the stages.
AppliesEvent == appPc = "workflow" /\ AtYield /\ wfPc' # wfPc

\* At most one stage is processing, and an applied event of stage k leaves
\* the stages below k completed and those above k pending.
StagesFollowEvents ==
  /\ [](Cardinality(Processing(stages)) <= 1)
  /\ [][AppliesEvent =>
          \E k \in {events[Len(events)].stageId} :
            /\ \A id \in StageIdSet :
                 /\ id < k => stages'[id].status = "completed"
                 /\ id > k => stages'[id].status = "pending"
            /\ stages'[k].status \in {"processing", "completed"}
            /\ stages'[k].logs = events[Len(events)].logs]_vars

InFlight == runs.started - runs.ended

====
